---- MODULE Spec2Model ----
(***************************************************************************)
(* Verification model of amplifier-bundle-containers.                      *)
(*                                                                         *)
(*  - SpecGate : the safety hooks (ContainerSafetyHooks) with several tool *)
(*               requests in flight between their pre and post hooks.      *)
(*  - SpecEnv  : the pure function resolve_env_passthrough.                *)
(*  - Spec     : ContainersTool.execute with the creation pipeline         *)
(*               (_op_preflight, _op_create) against an opaque engine.     *)
(*  - SpecOps  : the other operations of the tool, request after request. *)
(*  - SpecStore: MetadataStore called directly.                            *)
(*  - SpecHelpers: the hooks and the provisioner's functions called        *)
(*               directly, one call recorded with what it returned.        *)
(*  - SpecJobs : background jobs of one running container: their files,   *)
(*               their processes, and exec_poll and exec_cancel on them.   *)
(*                                                                         *)
(* Strings that the code takes apart (paths, variable names, glob          *)
(* patterns) are sequences of tokens, so that rstrip and fnmatch are       *)
(* computed and not assumed.                                               *)
(***************************************************************************)
EXTENDS Integers, Sequences, FiniteSets, TLC

VARIABLES
    \* ---- ContainerSafetyHooks ----
    require_approval,      \* self.require_approval
    max_containers,        \* self.max_containers
    auto_cleanup,          \* self.auto_cleanup
    session_containers,    \* self._session_containers
    req,                   \* tool requests between their hooks
    last_hook,             \* what the last hook call saw and returned
    \* ---- resolve_env_passthrough ----
    env_pc,                \* "call" before the call, "returned" after it
    env_in,                \* the arguments and os.environ of one call
    env_out,               \* its return value
    \* ---- ContainersTool ----
    pc,                    \* position of the request being executed
    inp,                   \* the request dict as the handler has rewritten it so far
    cr,                    \* locals of _op_create
    preflight_passed,      \* self._preflight_passed
    runtime,               \* ContainerRuntime._runtime (memoised detect())
    store,                 \* MetadataStore: name -> record
    containers,            \* containers that exist engine-side
    images,                \* cache images known to exist: tag purpose -> label
    log,                   \* engine commands and store writes of this request, in order
    report,                \* the provisioning report built so far
    result,                \* what execute returned
    served,                \* requests answered so far
    snapshots,             \* snapshot images engine-side: amplifier-snapshot:<name>
    jobs,                  \* per job id, the .exit file and the process under its PID
    probes,                \* exit codes of the health probes of the last wait_healthy
    \* ---- MetadataStore, driven call by call ----
    saved,                 \* per name, the record of the last save not yet removed
    loaded,                \* the last load call and what it returned
    \* ---- helpers, driven call by call ----
    called                 \* the last call of a helper: its arguments and return value

gateVars == <<require_approval, max_containers, auto_cleanup,
              session_containers, req, last_hook>>
envVars  == <<env_pc, env_in, env_out>>
toolVars == <<pc, inp, cr, preflight_passed, runtime, store, containers, images,
              log, report, result>>
opsVars  == <<served, snapshots, jobs, probes>>
callVars == <<saved, loaded, called>>

None == "None"

\* Optional entries of a dict: Absent, or Some(value)
Absent == <<>>
Some(v) == <<v>>

(***************************************************************************)
(* Generic helpers                                                         *)
(***************************************************************************)
Range(s) == {s[i] : i \in 1..Len(s)}

RECURSIVE SeqsUpTo(_, _)
SeqsUpTo(S, n) ==
    IF n = 0 THEN {<<>>}
    ELSE LET shorter == SeqsUpTo(S, n - 1)
         IN  shorter \cup {Append(s, x) : s \in {t \in shorter : Len(t) = n - 1}, x \in S}

\* str.rstrip("/") on a token sequence
RECURSIVE RStripSlash(_)
RStripSlash(p) ==
    IF p # <<>> /\ p[Len(p)] = "/" THEN RStripSlash(SubSeq(p, 1, Len(p) - 1)) ELSE p

\* list.remove(x): drops the first occurrence
RECURSIVE RemoveFirst(_, _)
RemoveFirst(s, x) ==
    IF s = <<>> THEN <<>>
    ELSE IF Head(s) = x THEN Tail(s)
    ELSE <<Head(s)>> \o RemoveFirst(Tail(s), x)

(***************************************************************************)
(* Safety hooks                                                            *)
(***************************************************************************)
Slots == {1, 2}      \* requests in flight at once
MaxLimit == 2        \* largest max_containers_per_session configured

Names == {"c1", "c2"}

ApprovalCategories ==
    {"gpu_access", "host_network", "sensitive_mounts", "ssh_forwarding",
     "all_env_passthrough", "destroy_all"}

DEFAULT_SENSITIVE_PREFIXES ==
    << <<"/">>, <<"/", "etc">>, <<"/", "var">>, <<"/", "root">>, <<"/", "home">>,
       <<"/", "boot">>, <<"/", "sys">>, <<"/", "proc">> >>

sensitive_prefixes == DEFAULT_SENSITIVE_PREFIXES

\* A plausible slip: everything below a sensitive prefix counts as sensitive
_is_sensitive_path_StartsWith(path) ==
    IF path = <<>> THEN FALSE
    ELSE LET normalized == RStripSlash(path)
         IN  \E i \in 1..Len(sensitive_prefixes) :
                 LET prefix == RStripSlash(sensitive_prefixes[i])
                 IN  Len(prefix) <= Len(normalized)
                     /\ SubSeq(normalized, 1, Len(prefix)) = prefix

_is_sensitive_path(path) ==
    IF path = <<>> THEN FALSE
    ELSE LET normalized == RStripSlash(path)
         IN  \E i \in 1..Len(sensitive_prefixes) :
                 normalized = RStripSlash(sensitive_prefixes[i])

GateOperations == {"create", "destroy", "destroy_all", "restore"}

MountLists ==
    { <<>>, << <<"/", "home">> >>, << <<"/", "home", "/", "user", "/", "projects">> >>,
      << <<"/", "etc", "/">>, <<"/">> >>, << <<>> >> }

\* Every tool_input the hooks tell apart
GateInputs ==
    [operation : GateOperations,
     gpu : BOOLEAN,
     network : {"bridge", "host"},
     mounts : MountLists,
     forward_ssh : BOOLEAN,
     env_passthrough : {"auto", "all"},
     container : Names]

PlainInput(op, c) ==
    [operation |-> op, gpu |-> FALSE, network |-> "bridge", mounts |-> <<>>,
     forward_ssh |-> FALSE, env_passthrough |-> "auto", container |-> c]

\* The tool_inputs the requests in flight carry: plain ones, and create requests
\* with one or with all of the gated options
GateRequests ==
    {PlainInput(op, c) : op \in GateOperations, c \in Names}
    \cup {[PlainInput("create", "c1") EXCEPT !.gpu = TRUE],
          [PlainInput("create", "c1") EXCEPT !.network = "host"],
          [PlainInput("create", "c1") EXCEPT !.mounts = << <<"/", "etc", "/">>, <<"/">> >>],
          [PlainInput("create", "c1") EXCEPT !.mounts =
               << <<"/", "home", "/", "user", "/", "projects">> >>],
          [PlainInput("create", "c1") EXCEPT !.forward_ssh = TRUE],
          [PlainInput("create", "c1") EXCEPT !.env_passthrough = "all"],
          [operation |-> "create", gpu |-> TRUE, network |-> "host",
           mounts |-> << <<"/", "home">> >>, forward_ssh |-> TRUE,
           env_passthrough |-> "all", container |-> "c1"]}

RECURSIVE MountReasons(_)
MountReasons(mounts) ==
    IF mounts = <<>> THEN <<>>
    ELSE (IF _is_sensitive_path(Head(mounts))
          THEN << <<"Sensitive host path mount", Head(mounts)>> >> ELSE <<>>)
         \o MountReasons(Tail(mounts))

\* A plausible slip: the gpu check does not look at require_approval_for
PreReasons_GpuAlways(tool_input, approval) ==
    LET op == tool_input.operation
    IN  (IF op = "create" /\ tool_input.gpu
         THEN << <<"GPU passthrough requested">> >> ELSE <<>>)
     \o (IF op = "create" /\ tool_input.network = "host" /\ "host_network" \in approval
         THEN << <<"Host network mode requested">> >> ELSE <<>>)
     \o (IF op = "create" /\ "sensitive_mounts" \in approval
         THEN MountReasons(tool_input.mounts) ELSE <<>>)
     \o (IF op = "create" /\ tool_input.forward_ssh /\ "ssh_forwarding" \in approval
         THEN << <<"SSH key forwarding requested">> >> ELSE <<>>)
     \o (IF op = "create" /\ tool_input.env_passthrough = "all" /\ "all_env_passthrough" \in approval
         THEN << <<"All environment variables requested">> >> ELSE <<>>)
     \o (IF op = "destroy_all" /\ "destroy_all" \in approval
         THEN << <<"Destroying ALL managed containers">> >> ELSE <<>>)

\* The reasons list handle_tool_pre has built when it reaches the limit check
PreReasons(tool_input, approval) ==
    LET op == tool_input.operation
    IN  (IF op = "create" /\ tool_input.gpu /\ "gpu_access" \in approval
         THEN << <<"GPU passthrough requested">> >> ELSE <<>>)
     \o (IF op = "create" /\ tool_input.network = "host" /\ "host_network" \in approval
         THEN << <<"Host network mode requested">> >> ELSE <<>>)
     \o (IF op = "create" /\ "sensitive_mounts" \in approval
         THEN MountReasons(tool_input.mounts) ELSE <<>>)
     \o (IF op = "create" /\ tool_input.forward_ssh /\ "ssh_forwarding" \in approval
         THEN << <<"SSH key forwarding requested">> >> ELSE <<>>)
     \o (IF op = "create" /\ tool_input.env_passthrough = "all" /\ "all_env_passthrough" \in approval
         THEN << <<"All environment variables requested">> >> ELSE <<>>)
     \o (IF op = "destroy_all" /\ "destroy_all" \in approval
         THEN << <<"Destroying ALL managed containers">> >> ELSE <<>>)

\* A plausible slip: the approval prompt is returned before the limit is looked at
handle_tool_pre_AskFirst(tool_name, tool_input, session, approval, limit) ==
    IF tool_name # "containers" THEN [action |-> "continue", reasons |-> <<>>]
    ELSE LET reasons == PreReasons(tool_input, approval)
         IN  IF reasons # <<>> THEN [action |-> "ask_user", reasons |-> reasons]
             ELSE IF tool_input.operation = "create" /\ Len(session) >= limit
             THEN [action |-> "deny", reasons |-> <<>>]
             ELSE [action |-> "continue", reasons |-> <<>>]

handle_tool_pre(tool_name, tool_input, session, approval, limit) ==
    IF tool_name # "containers" THEN [action |-> "continue", reasons |-> <<>>]
    ELSE LET reasons == PreReasons(tool_input, approval)
         IN  IF tool_input.operation = "create" /\ Len(session) >= limit
             THEN [action |-> "deny", reasons |-> <<>>]
             ELSE IF reasons # <<>> THEN [action |-> "ask_user", reasons |-> reasons]
             ELSE [action |-> "continue", reasons |-> <<>>]

\* tool_output as the post hook reads it: a dict with (maybe) "container" and
\* "success", or something that is not a dict
ToolOutputs(op) ==
    IF op = "create"
    THEN [isdict : {TRUE}, container : Names \cup {None}, success : BOOLEAN]
         \cup {[isdict |-> FALSE, container |-> None, success |-> FALSE]}
    ELSE {[isdict |-> TRUE, container |-> None, success |-> TRUE],
          [isdict |-> TRUE, container |-> None, success |-> FALSE],
          [isdict |-> FALSE, container |-> None, success |-> FALSE]}

\* A plausible slip: a create is tracked whenever its output names a container
handle_tool_post_NoSuccessCheck(tool_name, op, container, out, session) ==
    IF tool_name # "containers" THEN session
    ELSE LET created ==
                 IF op = "create" /\ out.isdict /\ out.container # None
                 THEN Append(session, out.container) ELSE session
         IN  IF op \in {"destroy", "destroy_all"} /\ out.isdict
             THEN IF op = "destroy"
                  THEN (IF container \in Range(created)
                        THEN RemoveFirst(created, container) ELSE created)
                  ELSE <<>>
             ELSE created

\* The session list after handle_tool_post
handle_tool_post(tool_name, op, container, out, session) ==
    IF tool_name # "containers" THEN session
    ELSE LET created ==
                 IF op = "create" /\ out.isdict /\ out.container # None /\ out.success
                 THEN Append(session, out.container) ELSE session
         IN  IF op \in {"destroy", "destroy_all"} /\ out.isdict
             THEN IF op = "destroy"
                  THEN (IF container \in Range(created)
                        THEN RemoveFirst(created, container) ELSE created)
                  ELSE <<>>
             ELSE created

\* A plausible slip: the list is announced whether or not auto cleanup is on
handle_session_end_Always(session, cleanup) ==
    IF session = <<>> THEN Absent ELSE Some(session)

\* The "cleanup_containers" entry of what handle_session_end returns, if any
handle_session_end(session, cleanup) ==
    IF ~cleanup \/ session = <<>> THEN Absent ELSE Some(session)

IdleReq == [pc |-> "idle", tool |-> None, op |-> None, container |-> None]

\* What a request in flight keeps of its event: the post hook reads tool_name,
\* the operation and, for destroy, tool_input["container"]
InFlight(at, tool_name, tool_input) ==
    IF tool_name # "containers" THEN [pc |-> at, tool |-> tool_name, op |-> None, container |-> None]
    ELSE [pc |-> at, tool |-> tool_name, op |-> tool_input.operation,
          container |-> IF tool_input.operation = "destroy" THEN tool_input.container ELSE None]

NoHook == [hook |-> None]

GateInit ==
    /\ require_approval \in {ApprovalCategories, ApprovalCategories \ {"gpu_access"}}
    /\ max_containers \in 1..MaxLimit
    /\ auto_cleanup \in BOOLEAN
    /\ session_containers = <<>>
    /\ req = [i \in Slots |-> IdleReq]
    /\ last_hook = NoHook

\* tool:pre of request i. A deny ends the request; ask_user waits for the user;
\* continue lets the tool run.
GatePre(i) ==
    /\ req[i].pc = "idle"
    /\ \E tool_name \in {"containers", "bash"}, tool_input \in GateRequests :
         LET res == handle_tool_pre(tool_name, tool_input, session_containers,
                                    require_approval, max_containers)
         IN  /\ req' = [req EXCEPT ![i] =
                   IF res.action = "deny" THEN IdleReq
                   ELSE InFlight(IF res.action = "ask_user" THEN "asking" ELSE "running",
                                 tool_name, tool_input)]
             /\ last_hook' = [hook |-> "pre", action |-> res.action,
                              raised |-> tool_name = "containers"
                                         /\ PreReasons(tool_input, require_approval) # <<>>]
    /\ UNCHANGED <<require_approval, max_containers, auto_cleanup, session_containers>>
    /\ UNCHANGED <<envVars, toolVars, opsVars, callVars>>

\* The user answers an approval prompt
GateAnswer(i) ==
    /\ req[i].pc = "asking"
    /\ \E allow \in BOOLEAN :
         req' = [req EXCEPT ![i] = IF allow THEN [@ EXCEPT !.pc = "running"] ELSE IdleReq]
    /\ UNCHANGED <<require_approval, max_containers, auto_cleanup, session_containers,
                   last_hook>>
    /\ UNCHANGED <<envVars, toolVars, opsVars, callVars>>

\* The tool has run; tool:post of request i sees its output
GatePost(i) ==
    /\ req[i].pc = "running"
    /\ \E out \in ToolOutputs(req[i].op) :
         /\ session_containers' =
                handle_tool_post(req[i].tool, req[i].op, req[i].container, out,
                                 session_containers)
         /\ last_hook' = [hook |-> "post", op |-> req[i].op,
                          changed |-> session_containers' # session_containers]
    /\ req' = [req EXCEPT ![i] = IdleReq]
    /\ UNCHANGED <<require_approval, max_containers, auto_cleanup>>
    /\ UNCHANGED <<envVars, toolVars, opsVars, callVars>>

GateSessionEnd ==
    /\ last_hook' = [hook |-> "session_end",
                     cleanup |-> handle_session_end(session_containers, auto_cleanup)]
    /\ UNCHANGED <<require_approval, max_containers, auto_cleanup, session_containers, req>>
    /\ UNCHANGED <<envVars, toolVars, opsVars, callVars>>

GateNext ==
    \/ \E i \in Slots : GatePre(i)
    \/ \E i \in Slots : GateAnswer(i)
    \/ \E i \in Slots : GatePost(i)
    \/ GateSessionEnd

(***************************************************************************)
(* Env passthrough                                                         *)
(***************************************************************************)
NEVER_PASSTHROUGH ==
    { <<"PATH">>, <<"HOME">>, <<"SHELL">>, <<"USER">>, <<"LOGNAME">>, <<"PWD">>,
      <<"OLDPWD">>, <<"TERM">>, <<"DISPLAY">>, <<"DBUS_SESSION_BUS_ADDRESS">>,
      <<"XDG_RUNTIME_DIR">>, <<"SSH_AUTH_SOCK">>, <<"SSH_CONNECTION">>,
      <<"SSH_CLIENT">>, <<"SSH_TTY">>, <<"LS_COLORS">>, <<"LANG">>, <<"LC_ALL">>,
      <<"HOSTNAME">>, <<"SHLVL">>, <<"_">> }

DEFAULT_ENV_PATTERNS ==
    << <<"*", "_API_KEY">>, <<"*", "_TOKEN">>, <<"*", "_SECRET">>,
       <<"ANTHROPIC_", "*">>, <<"OPENAI_", "*">>, <<"AZURE_OPENAI_", "*">>,
       <<"GOOGLE_", "*">>, <<"GEMINI_", "*">>, <<"OLLAMA_", "*">>, <<"VLLM_", "*">>,
       <<"AMPLIFIER_", "*">>, <<"HTTP_PROXY">>, <<"HTTPS_PROXY">>, <<"NO_PROXY">>,
       <<"http_proxy">>, <<"https_proxy">>, <<"no_proxy">> >>

\* fnmatch.fnmatch restricted to literals and "*"
RECURSIVE fnmatch(_, _)
fnmatch(name, pattern) ==
    IF pattern = <<>> THEN name = <<>>
    ELSE IF Head(pattern) = "*"
         THEN \/ fnmatch(name, Tail(pattern))
              \/ (name # <<>> /\ fnmatch(Tail(name), pattern))
    ELSE name # <<>> /\ Head(name) = Head(pattern) /\ fnmatch(Tail(name), Tail(pattern))

match_env_patterns(env, patterns) ==
    LET keep == {k \in DOMAIN env :
                    /\ k \notin NEVER_PASSTHROUGH
                    /\ \E i \in 1..Len(patterns) : fnmatch(k, patterns[i])}
    IN  [k \in keep |-> env[k]]

\* dict.update
DictUpdate(base, extra) ==
    [k \in DOMAIN base \cup DOMAIN extra |-> IF k \in DOMAIN extra THEN extra[k] ELSE base[k]]

EmptyDict == [k \in {} |-> None]

resolve_env_passthrough(mode, extra_env, config_patterns, host_env) ==
    LET patterns == IF config_patterns = None \/ config_patterns = <<>>
                    THEN DEFAULT_ENV_PATTERNS ELSE config_patterns
        base == IF mode.kind = "list"
                THEN [k \in Range(mode.names) \cap DOMAIN host_env |-> host_env[k]]
                ELSE IF mode.kind = "all"
                THEN [k \in DOMAIN host_env \ NEVER_PASSTHROUGH |-> host_env[k]]
                ELSE IF mode.kind = "none" THEN EmptyDict
                ELSE match_env_patterns(host_env, patterns)
    IN  DictUpdate(base, extra_env)

MaxListLen == 2      \* longest explicit env_passthrough list

EnvInit ==
    /\ env_in \in
          [mode : {[kind |-> k, names |-> <<>>] : k \in {"auto", "all", "none"}}
                  \cup {[kind |-> "list", names |-> l] :
                            l \in SeqsUpTo({<<"PATH">>, <<"GH", "_TOKEN">>, <<"RANDOM_VAR">>},
                                           MaxListLen)},
           extra_env : UNION {[D -> {"request-value"}] :
                                 D \in SUBSET {<<"PATH">>, <<"MY_CUSTOM">>}},
           config_patterns : {None, << <<"*">> >>},
           host_env : UNION {[D -> {"host-value"}] :
                                D \in SUBSET {<<"PATH">>, <<"HOME">>, <<"GH", "_TOKEN">>,
                                              <<"RANDOM_VAR">>}}]
    /\ env_pc = "call"
    /\ env_out = EmptyDict

EnvResolve ==
    /\ env_pc = "call"
    /\ env_pc' = "returned"
    /\ env_out' = resolve_env_passthrough(env_in.mode, env_in.extra_env,
                                          env_in.config_patterns, env_in.host_env)
    /\ UNCHANGED env_in
    /\ UNCHANGED <<gateVars, toolVars, opsVars, callVars>>

EnvNext == EnvResolve

(***************************************************************************)
(* Containers tool: profiles and pure helpers                              *)
(***************************************************************************)
MaxOptions == 2      \* request fields that differ from the defaults
MaxFailures == 1     \* setup commands of one create that exit non-zero

\* Shell commands are token sequences; these are the ones the code builds
PipUv == <<"pip install --quiet uv">>
UvBinDir == "UV_TOOL_BIN_DIR=/usr/local/bin "
UvTool == "uv tool install amplifier"

Profile(image, packages, setup, fgit, fgh, fssh, dot) ==
    [image |-> image, packages |-> packages, setup_commands |-> setup,
     forward_git |-> fgit, forward_gh |-> fgh, forward_ssh |-> fssh, dotfiles |-> dot]

KnownPurposes == {"python", "node", "rust", "go", "general", "amplifier", "clean"}

PURPOSE_PROFILES ==
    [p \in KnownPurposes |->
        CASE p = "python"    -> Profile(<<"python", "3.12-slim">>, TRUE, <<PipUv>>, TRUE, TRUE, FALSE, TRUE)
          [] p = "node"      -> Profile(<<"node", "20-slim">>, TRUE, << <<"corepack enable">> >>,
                                        TRUE, TRUE, FALSE, TRUE)
          [] p = "rust"      -> Profile(<<"rust", "1-slim">>, TRUE, <<>>, TRUE, TRUE, FALSE, TRUE)
          [] p = "go"        -> Profile(<<"golang", "1.22">>, TRUE, <<>>, TRUE, TRUE, FALSE, TRUE)
          [] p = "general"   -> Profile(<<"ubuntu", "24.04">>, TRUE, <<>>, TRUE, TRUE, FALSE, TRUE)
          [] p = "amplifier" -> Profile(<<"python", "3.12-slim">>, TRUE, <<PipUv, <<UvBinDir, UvTool>>>>,
                                        TRUE, TRUE, FALSE, TRUE)
          [] p = "clean"     -> Profile(<<"ubuntu", "24.04">>, TRUE, <<>>, FALSE, FALSE, FALSE, FALSE)]

NoHash == <<>>

\* The 8-hex digest of a profile, or None (NoHash) for an unknown purpose
get_profile_hash(purpose) ==
    IF purpose \in KnownPurposes THEN <<"md5", purpose>> ELSE NoHash

\* The profile's own commands: the package install, then its setup commands
purpose_setup(purpose) ==
    LET profile == PURPOSE_PROFILES[purpose]
    IN  (IF profile.packages
         THEN << <<"apt-get update -qq && apt-get install -y -qq ", purpose>> >>
         ELSE <<>>)
        \o profile.setup_commands

\* dict.get(key, default) for those fields
Get(d, key, default) == IF d[key] = Absent THEN default ELSE d[key][1]

\* dict.get(key, default) for the string fields, where None stands for a missing key
GetStr(d, key, default) == IF d[key] = None THEN default ELSE d[key]

resolve_purpose(purpose, explicit) ==
    IF purpose \notin KnownPurposes THEN explicit
    ELSE LET profile == PURPOSE_PROFILES[purpose]
         IN  [explicit EXCEPT
                 !.image = IF explicit.image = Absent THEN profile.image ELSE explicit.image,
                 !.forward_git = Some(Get(explicit, "forward_git", profile.forward_git)),
                 !.forward_gh = Some(Get(explicit, "forward_gh", profile.forward_gh)),
                 !.forward_ssh = Some(Get(explicit, "forward_ssh", profile.forward_ssh)),
                 !.dotfiles_skip = IF explicit.dotfiles_skip # Absent THEN explicit.dotfiles_skip
                                   ELSE IF profile.dotfiles = FALSE THEN Some(TRUE) ELSE Absent,
                 !._profile_setup_commands = Some(purpose_setup(purpose)),
                 !.setup_commands = Some(purpose_setup(purpose) \o Get(explicit, "setup_commands", <<>>))]

\* What detect_repo_purpose can return: (purpose, setup_hints)
DetectResults ==
    { <<"general", <<>>>>,
      <<"python", <<"uv pip install -e .[dev] || pip install -e .[dev] || true">> >>,
      <<"node", <<"npm install", "make 2>/dev/null || true">> >> }

(***************************************************************************)
(* Requests                                                                *)
(***************************************************************************)
NoPath == <<>>

\* Python truthiness of an optional string and of an optional path
Truthy(x) == x # None /\ x # ""

TruthyPath(path) == path # NoPath

\* A create request with every optional field absent (None) or at its default
DefaultCreate ==
    [operation |-> "create", name |-> None, image |-> Absent, purpose |-> None,
     repo_url |-> "https://host/r.git", cache_bust |-> FALSE, setup_commands |-> Absent,
     forward_git |-> Absent, forward_gh |-> Absent, forward_ssh |-> Absent,
     dotfiles_skip |-> Absent, dotfiles_repo |-> None, dotfiles_inline |-> None,
     repos |-> <<>>, config_files |-> <<>>, user |-> <<>>, mount_cwd |-> TRUE,
     amplifier_version |-> None, amplifier_bundle |-> None,
     _profile_setup_commands |-> Absent,
     compose_content |-> None, compose_file |-> NoPath,
     snapshot |-> None, container |-> None, command |-> None, as_root |-> Absent,
     force |-> FALSE, confirm |-> FALSE, job_id |-> None, health_command |-> None,
     retries |-> Absent]

\* Field values a request may set instead
Overrides ==
    {<<"name", "c1">>, <<"repo_url", None>>, <<"cache_bust", TRUE>>,
     <<"forward_git", Some(FALSE)>>,
     <<"forward_ssh", Some(TRUE)>>, <<"dotfiles_repo", "dotfiles.git">>,
     <<"dotfiles_inline", "inline files">>,
     <<"amplifier_version", "1.2.3">>, <<"amplifier_bundle", "bundle-uri">>}
    \cup {<<"purpose", p>> : p \in {"python", "amplifier", "clean", "try-repo", "custom"}}
    \cup {<<"setup_commands", Some(c)>> : c \in {<<<<"user command 1">>, <<"user command 2">>>>}}
    \cup {<<"repos", r>> : r \in {<<"plain", "install">>}}
    \cup {<<"config_files", f>> : f \in {<<"/etc/app.conf", "/etc/b.conf">>}}
    \cup {<<"user", u>> : u \in {<<"root">>, <<"1000">>}}

\* Fields that _op_create reads only under one purpose are set only with it
Applies(r, o) ==
    /\ o[1] \in {"amplifier_version", "amplifier_bundle"} => r.purpose = "amplifier"
    /\ o[1] = "repo_url" => r.purpose = "try-repo"

RECURSIVE Vary(_, _)
Vary(R, n) ==
    IF n = 0 THEN R
    ELSE Vary(R \cup {[r[1] EXCEPT ![r[2][1]] = r[2][2]] :
                          r \in {x \in R \X Overrides : Applies(x[1], x[2])}}, n - 1)

ToolRequests ==
    Vary({DefaultCreate}, MaxOptions)
    \cup {[DefaultCreate EXCEPT !.operation = "preflight"],
          [DefaultCreate EXCEPT !.operation = "launch"]}

Operations ==
    {"preflight", "create", "exec", "exec_interactive_hint", "list", "status", "destroy",
     "destroy_all", "copy_in", "copy_out", "snapshot", "restore", "create_network",
     "destroy_network", "cache_clear", "exec_background", "exec_poll", "exec_cancel",
     "wait_healthy"}

(***************************************************************************)
(* Containers tool: state and steps                                        *)
(***************************************************************************)
\* One engine command or store write: kind, target, provisioning step, arguments
Ev(kind, target, step, what) == [k |-> kind, t |-> target, s |-> step, w |-> what]

Exec(container, step, what) == Ev("exec", container, step, what)

\* ProvisioningStep(name, status, ...)
Step(name, status) == [name |-> name, status |-> status]

NoFrame == [name |-> None]

NoRequest == [operation |-> None]

NoResult == [kind |-> "none"]

HostUidGid == <<"1000", "1000">>

NoRecords == [n \in {} |-> None]

NoJobs == [j \in {} |-> None]

NoCall == [fn |-> None]

NoLoad == [name |-> None]

\* The tool after construction, on an engine holding the snapshot images `earlier`
ToolStart(earlier) ==
    /\ pc = "idle"
    /\ inp = NoRequest
    /\ cr = NoFrame
    /\ preflight_passed = FALSE
    /\ runtime = None
    /\ containers = {}
    /\ store = [n \in {} |-> None]
    /\ images = [t \in {} |-> None]
    /\ log = <<>>
    /\ report = <<>>
    /\ result = NoResult
    /\ served = 0
    /\ snapshots = earlier
    /\ jobs = NoJobs
    /\ probes = <<>>
    /\ saved = NoRecords
    /\ loaded = NoLoad
    /\ called = NoCall

\* A tool instance on an engine that holds no snapshot image
ToolInit == ToolStart({})

\* ContainerRuntime.detect(): the memoised engine, or the first of podman, docker
\* that shutil.which finds (on_path: what is on PATH now)
detect(memo, on_path) ==
    IF memo # None THEN memo
    ELSE IF "podman" \in on_path THEN "podman"
    ELSE IF "docker" \in on_path THEN "docker"
    ELSE None

\* What shutil.which finds when ContainerRuntime.run looks for the engine
EnginePaths == SUBSET {"podman", "docker"}

\* What the host and the daemon answer to one preflight
PreflightWorlds ==
    [on_path : SUBSET {"podman", "docker"}, daemon_ok : BOOLEAN, perms_ok : BOOLEAN,
     disk : {"low", "ok", "oserror"}]

\* _op_preflight: [ready, runtime, probes]
op_preflight(memo, w) ==
    LET rt == detect(memo, w.on_path)
    IN  IF rt = None THEN [ready |-> FALSE, runtime |-> None, probes |-> <<>>]
        ELSE LET perms == w.daemon_ok /\ w.perms_ok
                 disk_passed == w.disk # "low"
             IN  [ready |-> w.daemon_ok /\ perms /\ disk_passed,
                  runtime |-> rt,
                  probes |-> <<"info">>
                             \o (IF w.daemon_ok THEN <<"ps">> ELSE <<>>)
                             \o (IF rt = "podman" THEN <<>> ELSE <<"info --format Runtimes">>)]

\* A plausible slip: execute goes on to the handler whatever the preflight said
PreflightBlocks_Ignore(ready) == FALSE

\* execute: the auto-preflight stops a create that is not ready
PreflightBlocks(ready) == ~ready

\* execute: dispatch to _op_<operation>, and the auto-preflight before a create
ExecuteFrom(requests) ==
    /\ pc = "idle"
    /\ \E r \in requests :
         /\ inp' = r
         /\ cr' = NoFrame
         /\ log' = <<>>
         /\ report' = <<>>
         /\ IF r.operation \notin Operations
            THEN /\ pc' = "idle"
                 /\ result' = [kind |-> "error", error |-> "Unknown operation"]
            ELSE /\ result' = NoResult
                 /\ pc' = IF r.operation = "create"
                          THEN (IF preflight_passed THEN "create" ELSE "preflight")
                          ELSE r.operation
    /\ jobs' = NoJobs
    /\ probes' = <<>>
    /\ UNCHANGED <<preflight_passed, runtime, store, containers, images, served, snapshots>>
    /\ UNCHANGED <<gateVars, envVars, callVars>>

\* _op_preflight, called as the operation or by execute before the first create
Preflight ==
    /\ pc = "preflight"
    /\ \E w \in PreflightWorlds :
         LET pf == op_preflight(runtime, w)
         IN  /\ runtime' = pf.runtime
             /\ preflight_passed' = (preflight_passed \/ pf.ready)
             /\ IF inp.operation = "preflight"
                THEN /\ pc' = "idle"
                     /\ result' = [kind |-> "preflight", ready |-> pf.ready,
                                   runtime |-> pf.runtime, probes |-> pf.probes]
                ELSE IF PreflightBlocks(pf.ready)
                THEN /\ pc' = "done"
                     /\ result' = [kind |-> "error", error |-> "Container runtime not ready",
                                   preflight |-> [ready |-> pf.ready, runtime |-> pf.runtime,
                                                  probes |-> pf.probes]]
                ELSE /\ pc' = "create"
                     /\ result' = NoResult
    /\ UNCHANGED <<inp, cr, store, containers, images, log, report>>
    /\ UNCHANGED <<gateVars, envVars, opsVars, callVars>>

(***************************************************************************)
(* _op_create: purpose, cache and the engine run                           *)
(***************************************************************************)
\* A plausible slip: the setup hints are put before the clone
try_repo_HintsFirst(d, detected) ==
    [d EXCEPT !.purpose = detected[1],
              !.setup_commands =
                  Some([i \in 1..Len(detected[2]) |-> <<"cd /workspace/repo && ", detected[2][i]>>]
                       \o <<<<"git clone ", d.repo_url, " /workspace/repo">>>>
                       \o Get(d, "setup_commands", <<>>))]

\* _op_create, purpose "try-repo": the detected purpose replaces it, and the clone
\* and the setup hints go before the request's own setup commands
try_repo(d, detected) ==
    [d EXCEPT !.purpose = detected[1],
              !.setup_commands =
                  Some(<<<<"git clone ", d.repo_url, " /workspace/repo">>>>
                       \o [i \in 1..Len(detected[2]) |-> <<"cd /workspace/repo && ", detected[2][i]>>]
                       \o Get(d, "setup_commands", <<>>))]

CacheTag(purpose) == <<"amplifier-cache", purpose>>

NoImage == [exists |-> FALSE, label |-> NoHash]

\* What `image inspect` can find under a cache tag
ImageStates(purpose) ==
    {NoImage} \cup {[exists |-> TRUE, label |-> l] :
                        l \in {get_profile_hash(purpose), <<"md5", "older profile">>, NoHash}}

\* A plausible slip: any image under the cache tag is taken, whatever its label
get_cached_image_AnyLabel(purpose, found) ==
    IF ~found.exists THEN Absent ELSE CacheTag(purpose)

\* _get_cached_image: the cache tag when the image is there and its label is current
\* (an unknown purpose has no digest, so any image is accepted), or Absent
get_cached_image(purpose, found) ==
    IF ~found.exists THEN Absent
    ELSE IF get_profile_hash(purpose) # NoHash /\ found.label # get_profile_hash(purpose)
         THEN Absent
         ELSE CacheTag(purpose)

\* A plausible slip: the tail of the command list is dropped instead of its head
use_cached_image_KeepProfile(d, cached) ==
    LET profile_cmds == Get(d, "_profile_setup_commands", <<>>)
        all_cmds == Get(d, "setup_commands", <<>>)
    IN  [d EXCEPT !.image = cached,
                  !.setup_commands = Some(SubSeq(all_cmds, 1, Len(profile_cmds)))]

\* _op_create on a cache hit: the cached image replaces the image and the
\* profile's commands are cut off the front of the setup commands
use_cached_image(d, cached) ==
    LET profile_cmds == Get(d, "_profile_setup_commands", <<>>)
        all_cmds == Get(d, "setup_commands", <<>>)
    IN  [d EXCEPT !.image = cached,
                  !.setup_commands = Some(SubSeq(all_cmds, Len(profile_cmds) + 1, Len(all_cmds)))]

DefaultImage == <<"ubuntu", "24.04">>

GeneratedName == "amp-1"

\* exec_user: the requested user, else the host uid:gid when something is mounted;
\* "root" means none
compute_exec_user(d) ==
    LET requested == IF d.user = <<>> /\ d.mount_cwd THEN HostUidGid ELSE d.user
    IN  IF requested = <<"root">> THEN <<>> ELSE requested

target_home(exec_user) == IF exec_user # <<>> THEN "/home/hostuser" ELSE None

\* A plausible slip: the ssh fix-up is done before the git configuration
Pipeline_SshFirst ==
    <<"user", "ssh", "gh", "git", "dotfiles", "repos", "config", "amplifier", "setup",
      "save", "commit">>

\* The try block of _op_create, in program order
Pipeline ==
    <<"user", "git", "gh", "ssh", "dotfiles", "repos", "config", "amplifier", "setup",
      "save", "commit">>

After(at) == Pipeline[1 + CHOOSE i \in DOMAIN Pipeline : Pipeline[i] = at]

\* A plausible slip: the exit status of the run is not looked at
run_failed_Never(returncode) == FALSE

run_failed(returncode) == returncode # 0

\* MetadataStore keeps one directory per name: containers_dir / name. pathlib drops
\* a "." component and splits at "/", so these are the directories the names used
\* here stand for, as their components below containers_dir
PathParts(name) ==
    CASE name = "."    -> <<>>
      [] name = ""     -> <<>>
      [] name = "c1/x" -> <<"c1", "x">>
      [] OTHER         -> <<name>>

\* The directory of a name, written the shortest way
PathOf(name) == IF name = "." THEN "" ELSE name

\* Directory p is directory q or lies below it
Under(p, q) ==
    LET a == PathParts(p)
        b == PathParts(q)
    IN  Len(b) <= Len(a) /\ SubSeq(a, 1, Len(b)) = b

\* A plausible slip: the rollback leaves the metadata record
store_remove_Keep(st, name) == st

\* MetadataStore.remove: shutil.rmtree of the directory, with all that is below it
store_remove(st, name) ==
    [n \in {m \in DOMAIN st : ~Under(m, PathOf(name))} |-> st[n]]

\* MetadataStore.load: the content of metadata.json in the directory, if there
store_load(st, name) ==
    IF PathOf(name) \in DOMAIN st THEN Some(st[PathOf(name)]) ELSE Absent

\* The frame of one _op_create call: its locals
Frame(d, purpose) ==
    [inp |-> d, purpose |-> purpose, cache_used |-> FALSE, name |-> None,
     image |-> DefaultImage, exec_user |-> <<>>, returncode |-> 0, results |-> <<>>,
     todo |-> <<>>,
     compose_project |-> None, compose_file_path |-> NoPath, compose_network |-> <<>>]

ComposeNetwork(project) == <<project, "_default">>

NoNetwork == <<>>

\* A plausible slip: the two compose fields are not checked against each other,
\* and the content wins
compose_conflict_ContentWins(compose_content, compose_file_path) == FALSE

\* _op_create: compose_content and compose_file exclude each other
compose_conflict(compose_content, compose_file_path) ==
    Truthy(compose_content) /\ TruthyPath(compose_file_path)

\* _op_create, compose part: [error, events, inp, project, file, network]
compose_start(d, w) ==
    LET compose_content == d.compose_content
        compose_file_path == d.compose_file
        nothing == [error |-> None, events |-> <<>>, inp |-> d, project |-> None,
                    file |-> compose_file_path, network |-> NoNetwork]
    IN  IF compose_conflict(compose_content, compose_file_path)
        THEN [nothing EXCEPT !.error = "Provide compose_content OR compose_file, not both"]
        ELSE IF ~(Truthy(compose_content) \/ TruthyPath(compose_file_path)) THEN nothing
        ELSE IF ~w.detect
        THEN [nothing EXCEPT !.error = "docker compose not available",
                             !.events = <<Ev("compose version", None, "compose", <<>>)>>]
        ELSE LET project == GetStr(d, "name", GeneratedName)
                 d1 == [d EXCEPT !.name = project]
                 file == IF Truthy(compose_content) THEN <<"/tmp/", "amp-compose-", project, ".yml">>
                         ELSE compose_file_path
                 started ==
                     <<Ev("compose version", None, "compose", <<>>)>>
                     \o (IF Truthy(compose_content)
                         THEN <<Ev("tempfile.write", project, "compose", file)>> ELSE <<>>)
                     \o <<Ev("compose up", project, "compose", file)>>
             IN  IF ~w.up
                 THEN [nothing EXCEPT
                          !.error = "docker compose up failed",
                          !.events = started
                              \o (IF Truthy(compose_content)
                                  THEN <<Ev("tempfile.unlink", project, "compose", file)>>
                                  ELSE <<>>)]
                 ELSE [error |-> None,
                       events |-> Append(started, Ev("network inspect", project, "compose",
                                                     ComposeNetwork(project))),
                       inp |-> d1, project |-> project, file |-> file,
                       network |-> IF w.network THEN ComposeNetwork(project) ELSE NoNetwork]

\* _op_create up to the cache lookup: compose, try-repo detection and resolve_purpose
OpCreate ==
    /\ pc = "create"
    /\ \E w \in (IF Truthy(inp.compose_content) \/ TruthyPath(inp.compose_file)
                 THEN [detect : BOOLEAN, up : BOOLEAN, network : BOOLEAN]
                 ELSE {[detect |-> FALSE, up |-> FALSE, network |-> FALSE]}) :
         LET c == compose_start(inp, w)
         IN  /\ log' = log \o c.events
             /\ IF c.error # None
                THEN /\ pc' = "done"
                     /\ result' = [kind |-> "error", error |-> c.error]
                     /\ cr' = cr
                ELSE IF c.inp.purpose = "try-repo" /\ c.inp.repo_url = None
                THEN /\ pc' = "done"
                     /\ result' = [kind |-> "error", error |-> "repo_url is required"]
                     /\ cr' = cr
                ELSE /\ \E detected \in (IF c.inp.purpose = "try-repo" THEN DetectResults
                                         ELSE {<<c.inp.purpose, <<>>>>}) :
                          LET d1 == IF c.inp.purpose = "try-repo"
                                    THEN try_repo(c.inp, detected) ELSE c.inp
                              purpose == d1.purpose
                              d2 == IF purpose # None THEN resolve_purpose(purpose, d1) ELSE d1
                          IN  cr' = [Frame(d2, purpose) EXCEPT
                                        !.compose_project = c.project,
                                        !.compose_file_path = c.file,
                                        !.compose_network = c.network]
                     /\ pc' = "cache"
                     /\ result' = result
    /\ UNCHANGED <<inp, preflight_passed, runtime, store, containers, images, report>>
    /\ UNCHANGED <<gateVars, envVars, opsVars, callVars>>

\* _op_create: the cache lookup, then name, image and exec_user
CacheLookup ==
    /\ pc = "cache"
    /\ \E found \in (IF cr.purpose # None /\ ~cr.inp.cache_bust /\ runtime # None
                     THEN ImageStates(cr.purpose) ELSE {NoImage}) :
         LET looked == cr.purpose # None /\ ~cr.inp.cache_bust
             cached == IF looked THEN get_cached_image(cr.purpose, found) ELSE Absent
             d == IF cached # Absent THEN use_cached_image(cr.inp, cached) ELSE cr.inp
         IN  /\ cr' = [cr EXCEPT !.inp = d,
                                 !.cache_used = (cached # Absent),
                                 !.name = GetStr(d, "name", GeneratedName),
                                 !.image = IF d.image = Absent THEN DefaultImage ELSE d.image,
                                 !.exec_user = compute_exec_user(d)]
             /\ log' = IF looked
                       THEN log \o <<Ev("image inspect", None, "cache", CacheTag(cr.purpose))>>
                       ELSE log
             /\ images' = IF found.exists THEN CacheTag(cr.purpose) :> found.label ELSE images
    /\ pc' = "run"
    /\ UNCHANGED <<inp, preflight_passed, runtime, store, containers, report, result>>
    /\ UNCHANGED <<gateVars, envVars, opsVars, callVars>>

\* What `gh auth token` prints on the host of the create pipeline: gh is logged in
\* through its credential store, os.environ holds a provider key and no GitHub token
GhAuthToken == "gho_host"

\* The env_vars of the create pipeline: what resolve_env_passthrough returns for the
\* request's defaults (mode auto, no extra env) and that os.environ
CreateEnvVars ==
    resolve_env_passthrough([kind |-> "auto", names |-> <<>>], EmptyDict, None,
        (<<"ANTHROPIC_", "API_KEY">> :> "sk-host") @@ (<<"PATH">> :> "/usr/bin"))

\* The -e flags of the run: one per variable resolve_env_passthrough returns for
\* the request's defaults (mode auto, no extra env) and that os.environ
EnvFlags ==
    LET RECURSIVE flags(_)
        flags(env_vars) ==
            IF DOMAIN env_vars = {} THEN <<>>
            ELSE LET key == CHOOSE k \in DOMAIN env_vars : TRUE
                 IN  <<"-e">> \o key \o <<"=", env_vars[key]>>
                     \o flags([k \in DOMAIN env_vars \ {key} |-> env_vars[k]])
    IN  flags(CreateEnvVars)

\* A plausible slip: the mapped user is given to the run as well
RunArgs_WithUser(f) ==
    <<"-d", "--name", f.name>>
    \o (IF f.exec_user # <<>> THEN <<"--user">> \o f.exec_user ELSE <<>>)
    \o <<"--network">> \o (IF f.compose_network # <<>> THEN f.compose_network ELSE <<"bridge">>)
    \o EnvFlags
    \o f.image

\* The engine command line of the run: the network (that of the compose project
\* if there is one), the -e flags, no --user flag, the image last
RunArgs(f) ==
    <<"-d", "--name", f.name>>
    \o <<"--network">> \o (IF f.compose_network # <<>> THEN f.compose_network ELSE <<"bridge">>)
    \o EnvFlags
    \o f.image

SnapshotTag(snapshot_name) == <<"amplifier-snapshot", snapshot_name>>

\* The exit codes the engine can give the run: it refuses a name that is taken and
\* an image it cannot find, and nothing runs without an engine
RunCodes(rt, f) ==
    IF /\ rt # None
       /\ f.name \notin containers
       /\ (f.image[1] = "amplifier-snapshot" => f.image[2] \in snapshots)
    THEN {0, 1} ELSE {1}

\* _op_create: the engine run; a non-zero exit removes what the run left behind
\* and returns the error with the command hint
EngineRun ==
    /\ pc = "run"
    /\ \E on_path \in EnginePaths :
       LET rt == detect(runtime, on_path)
       IN
       \E returncode \in RunCodes(rt, cr) :
         /\ runtime' = rt
         /\ IF run_failed(returncode)
            THEN /\ cr' = [cr EXCEPT !.returncode = returncode]
                 /\ log' = log \o <<Ev("run", cr.name, "create", RunArgs(cr)),
                                    Ev("rm -f", cr.name, "create", <<>>)>>
                 /\ containers' = containers \ {cr.name}
                 /\ result' = [kind |-> "error", error |-> "Failed to create container",
                               command_hint |-> <<rt, "run">> \o RunArgs(cr)]
                 /\ pc' = "done"
            ELSE /\ cr' = [cr EXCEPT !.returncode = returncode]
                 /\ log' = log \o <<Ev("run", cr.name, "create", RunArgs(cr))>>
                 /\ containers' = IF returncode = 0 THEN containers \cup {cr.name}
                                  ELSE containers
                 /\ result' = result
                 /\ pc' = Pipeline[1]
    /\ UNCHANGED <<inp, preflight_passed, store, images, report>>
    /\ UNCHANGED <<gateVars, envVars, opsVars, callVars>>

\* The except clause of _op_create: rm -f, store.remove, the error with cleanup
Rollback ==
    /\ log' = log \o <<Ev("rm -f", cr.name, "rollback", <<>>),
                       Ev("store.remove", cr.name, "rollback", <<>>)>>
    /\ containers' = containers \ {cr.name}
    /\ store' = store_remove(store, cr.name)
    /\ result' = [kind |-> "error", error |-> "Container created but setup failed",
                  cleanup |-> "Container was automatically removed"]
    /\ pc' = "done"

(***************************************************************************)
(* _op_create: provisioning (inside the try block)                         *)
(***************************************************************************)
\* get_container_home: asks the container unless the target home is given
get_container_home(c, step, home) ==
    IF home # None THEN <<>> ELSE <<Exec(c, step, <<"echo $HOME">>)>>

\* provision_git: [step, cmds]
provision_git(c, home, host) ==
    IF host = "no_gitconfig"
    THEN [step |-> Step("forward_git", "skipped"), cmds |-> <<>>]
    ELSE LET copy == get_container_home(c, "forward_git", home)
                     \o <<Exec(c, "forward_git", <<"mkdir -p">>),
                          Ev("cp", c, "forward_git", <<".gitconfig">>)>>
         IN  IF host = "cp_failed"
             THEN [step |-> Step("forward_git", "failed"), cmds |-> copy]
             ELSE [step |-> Step("forward_git", "success"),
                   cmds |-> copy \o <<Exec(c, "forward_git", <<"cat >> .gitconfig">>)>>]

\* The entries (section, key) of the container's ~/.gitconfig after provision_git:
\* the host file whole, as `cp` copied it, then the [user] block with the identity
\* resolved on the host when the heredoc append exits 0
gitconfig_written(host_config, host, resolved, inject_returncode) ==
    IF host # "copied" THEN <<>>
    ELSE host_config
         \o (IF resolved # <<>> /\ inject_returncode = 0
             THEN [i \in DOMAIN resolved |-> <<"user", resolved[i]>>] ELSE <<>>)

\* provision_gh_auth: without the token env vars the step is skipped; verify is
\* what `printenv GH_TOKEN` prints in the container and gh_check the exit code of
\* `which gh`; the login command is built from the token
provision_gh_auth(c, gh_env_vars, verify, gh_check) ==
    LET token == IF "GH_TOKEN" \in DOMAIN gh_env_vars THEN gh_env_vars["GH_TOKEN"] ELSE ""
    IN  IF DOMAIN gh_env_vars = {} \/ token = ""
        THEN [step |-> Step("forward_gh", "skipped"), cmds |-> <<>>]
        ELSE IF verify # token
        THEN [step |-> Step("forward_gh", "failed"),
              cmds |-> <<Exec(c, "forward_gh", <<"printenv GH_TOKEN">>)>>]
        ELSE [step |-> Step("forward_gh", "success"),
              cmds |-> <<Exec(c, "forward_gh", <<"printenv GH_TOKEN">>),
                         Exec(c, "forward_gh", <<"which gh">>)>>
                       \o (IF gh_check = 0
                           THEN <<Exec(c, "forward_gh",
                                       <<"echo \"", token, "\" | ",
                                         "gh auth login --with-token">>)>>
                           ELSE <<>>)]

\* The commands of fix_ssh_permissions; those ending in "|| true" always exit 0
SshCommands ==
    << <<"mkdir -p">>, <<"cp -r /tmp/.host-ssh/*", "|| true">>, <<"chmod 700">>,
       <<"chmod 600 id_*", "|| true">>, <<"chmod 644 *.pub", "|| true">>,
       <<"chmod 644 known_hosts", "|| true">>, <<"chmod 644 config", "|| true">> >>

\* fix_ssh_permissions: failing holds the commands whose mkdir, cp or chmod fails;
\* the shell line exits non-zero only without "|| true", and the first line that
\* does ends the step as failed
fix_ssh_permissions(c, home, failing) ==
    LET nonzero == {i \in failing : "|| true" \notin Range(SshCommands[i])}
        ran == IF nonzero = {} THEN Len(SshCommands)
               ELSE CHOOSE i \in nonzero : \A j \in nonzero : i <= j
    IN  [step |-> Step("forward_ssh", IF nonzero = {} THEN "success" ELSE "failed"),
         cmds |-> get_container_home(c, "forward_ssh", home)
                  \o [i \in 1..ran |-> Exec(c, "forward_ssh", SshCommands[i])]]

\* provision_dotfiles: the clone, then the install script
provision_dotfiles(c, repo, cloned) ==
    IF ~cloned
    THEN [step |-> Step("dotfiles", "failed"),
          cmds |-> <<Exec(c, "dotfiles", <<"git clone --depth=1", repo>>)>>]
    ELSE [step |-> Step("dotfiles", "success"),
          cmds |-> <<Exec(c, "dotfiles", <<"git clone --depth=1", repo>>),
                     Exec(c, "dotfiles", <<"install">>)>>]

provision_dotfiles_inline(c, files) ==
    [step |-> Step("dotfiles_inline", "success"),
     cmds |-> <<Exec(c, "dotfiles_inline", <<"cat >", files>>)>>]

\* failed when nothing was done, partial when something was, else success
Aggregate(oks) ==
    IF \A i \in DOMAIN oks : oks[i] THEN "success"
    ELSE IF \A i \in DOMAIN oks : ~oks[i] THEN "failed"
    ELSE "partial"

RepoOutcomes(repo) ==
    IF repo = "install" THEN {"cloned", "clone_failed", "install_failed"}
    ELSE {"cloned", "clone_failed"}

\* provision_repos: per repo the clone and, for a repo with install, the install
provision_repos(c, repos, outcomes) ==
    [step |-> Step("repos", Aggregate([i \in DOMAIN repos |-> outcomes[i] = "cloned"])),
     cmds |-> LET RECURSIVE Cmds(_)
                  Cmds(i) ==
                      IF i > Len(repos) THEN <<>>
                      ELSE <<Exec(c, "repos", <<"git clone", repos[i]>>)>>
                           \o (IF repos[i] = "install" /\ outcomes[i] # "clone_failed"
                               THEN <<Exec(c, "repos", <<"install", repos[i]>>)>> ELSE <<>>)
                           \o Cmds(i + 1)
              IN  Cmds(1)]

\* provision_config_files: one write per file
provision_config_files(c, files, written) ==
    [step |-> Step("config_files", Aggregate(written)),
     cmds |-> [i \in DOMAIN files |-> Exec(c, "config_files", <<"cat >", files[i]>>)]]

\* provision_amplifier_settings
provision_amplifier_settings(c, home, host) ==
    IF host = "no_dir"
    THEN [step |-> Step("amplifier_settings", "skipped"), cmds |-> <<>>]
    ELSE LET mk == get_container_home(c, "amplifier_settings", home)
                   \o <<Exec(c, "amplifier_settings", <<"mkdir -p .amplifier">>)>>
         IN  IF host = "no_files"
             THEN [step |-> Step("amplifier_settings", "skipped"), cmds |-> mk]
             ELSE [step |-> Step("amplifier_settings", "success"),
                   cmds |-> mk \o <<Ev("cp", c, "amplifier_settings", <<"settings.yaml">>)>>]

\* str.replace of the generic install by the pinned one, in commands that hold it
RECURSIVE ReplaceInstall(_, _)
ReplaceInstall(cmd, version) ==
    IF Len(cmd) < 2 THEN cmd
    ELSE IF cmd[1] = UvBinDir /\ cmd[2] = UvTool
         THEN <<UvBinDir, UvTool, "==", version>>
              \o ReplaceInstall(SubSeq(cmd, 3, Len(cmd)), version)
         ELSE <<cmd[1]>> \o ReplaceInstall(Tail(cmd), version)

\* The setup commands after version pinning and the bundle command
final_setup_commands(d, purpose) ==
    LET given == Get(d, "setup_commands", <<>>)
        pinned == IF purpose = "amplifier" /\ d.amplifier_version # None
                  THEN [i \in DOMAIN given |->
                           IF UvTool \in Range(given[i])
                           THEN ReplaceInstall(given[i], d.amplifier_version) ELSE given[i]]
                  ELSE given
    IN  IF purpose = "amplifier" /\ d.amplifier_bundle # None
        THEN pinned \o << <<"amplifier bundle add ", d.amplifier_bundle,
                              " --app 2>/dev/null || true">> >>
        ELSE pinned

\* A plausible slip: a failed step ends the pipeline
next_step_StopOnFailure(step, following) ==
    IF step.status = "failed" THEN "done" ELSE following

\* _op_create appends the step to the report and goes on, whatever its status
next_step(step, following) == following

\* One provisioning step of _op_create: its commands, its report entry
Provisioned(r, following) ==
    /\ report' = Append(report, r.step)
    /\ log' = log \o r.cmds
    /\ pc' = next_step(r.step, following)
    /\ UNCHANGED <<inp, preflight_passed, runtime, store, containers, images, result>>
    /\ UNCHANGED <<gateVars, envVars, opsVars, callVars>>

NotRequested(name) == [step |-> Step(name, "skipped"), cmds |-> <<>>]

\* _op_create: the host user inside the container, then the env_passthrough entry
CreateUser ==
    /\ pc = "user"
    /\ IF cr.exec_user # <<>> /\ Len(cr.exec_user) # 2
       THEN \* uid, gid = exec_user.split(":") raises ValueError
            /\ Rollback
            /\ UNCHANGED <<inp, cr, preflight_passed, runtime, images, report>>
            /\ UNCHANGED <<gateVars, envVars, opsVars, callVars>>
       ELSE /\ log' = log \o (IF cr.exec_user # <<>>
                              THEN <<Exec(cr.name, "user", <<"groupadd -g", cr.exec_user[2]>>),
                                     Exec(cr.name, "user", <<"useradd -u", cr.exec_user[1]>>)>>
                              ELSE <<>>)
            /\ report' = <<Step("env_passthrough", "success")>>
            /\ pc' = After("user")
            /\ UNCHANGED <<inp, cr, preflight_passed, runtime, store, containers, images,
                           result>>
            /\ UNCHANGED <<gateVars, envVars, opsVars, callVars>>

ProvisionGit ==
    /\ pc = "git"
    /\ \E host \in (IF Get(cr.inp, "forward_git", TRUE)
                    THEN {"no_gitconfig", "cp_failed", "copied"} ELSE {"no_gitconfig"}) :
         Provisioned(IF Get(cr.inp, "forward_git", TRUE)
                     THEN provision_git(cr.name, target_home(cr.exec_user), host)
                     ELSE NotRequested("forward_git"), After("git"))
    /\ UNCHANGED cr

ProvisionGh ==
    /\ pc = "gh"
    /\ Provisioned(IF Get(cr.inp, "forward_gh", TRUE)
                   THEN provision_gh_auth(cr.name, EmptyDict, "", 1)
                   ELSE NotRequested("forward_gh"), After("gh"))
    /\ UNCHANGED cr

FixSsh ==
    /\ pc = "ssh"
    /\ \E failing \in (IF Get(cr.inp, "forward_ssh", FALSE)
                        THEN {{}, {1}, {3}, {4}} ELSE {{}}) :
         Provisioned(IF Get(cr.inp, "forward_ssh", FALSE)
                     THEN fix_ssh_permissions(cr.name, target_home(cr.exec_user), failing)
                     ELSE NotRequested("forward_ssh"), After("ssh"))
    /\ UNCHANGED cr

ProvisionDotfiles ==
    /\ pc = "dotfiles"
    /\ LET wanted == ~Get(cr.inp, "dotfiles_skip", FALSE)
           repo == cr.inp.dotfiles_repo
       IN  \E cloned \in (IF wanted /\ repo # None THEN BOOLEAN ELSE {TRUE}) :
             Provisioned(IF wanted /\ repo # None
                         THEN provision_dotfiles(cr.name, repo, cloned)
                         ELSE IF wanted /\ cr.inp.dotfiles_inline # None
                         THEN provision_dotfiles_inline(cr.name, cr.inp.dotfiles_inline)
                         ELSE NotRequested("dotfiles"), After("dotfiles"))
    /\ UNCHANGED cr

ProvisionRepos ==
    /\ pc = "repos"
    /\ LET repos == cr.inp.repos
       IN  \E outcomes \in {o \in [DOMAIN repos -> {"cloned", "clone_failed", "install_failed"}] :
                               \A i \in DOMAIN repos : o[i] \in RepoOutcomes(repos[i])} :
             Provisioned(IF repos # <<>> THEN provision_repos(cr.name, repos, outcomes)
                         ELSE NotRequested("repos"), After("repos"))
    /\ UNCHANGED cr

ProvisionConfigFiles ==
    /\ pc = "config"
    /\ LET files == cr.inp.config_files
       IN  \E written \in [DOMAIN files -> BOOLEAN] :
             Provisioned(IF files # <<>> THEN provision_config_files(cr.name, files, written)
                         ELSE NotRequested("config_files"), After("config"))
    /\ UNCHANGED cr

\* _op_create: the amplifier settings (purpose amplifier only), then the version
\* pinning and the bundle command that fix the setup commands to run
ProvisionAmplifier ==
    /\ pc = "amplifier"
    /\ LET todo == final_setup_commands(cr.inp, cr.purpose)
           following == IF todo = <<>> THEN After("setup") ELSE After("amplifier")
       IN  /\ cr' = [cr EXCEPT !.todo = todo, !.results = <<>>]
           /\ IF cr.purpose = "amplifier"
              THEN \E host \in {"no_dir", "no_files", "copied"} :
                     Provisioned(provision_amplifier_settings(cr.name,
                                     target_home(cr.exec_user), host), following)
              ELSE /\ pc' = following
                   /\ UNCHANGED <<log, report>>
                   /\ UNCHANGED <<inp, preflight_passed, runtime, store, containers, images,
                                  result>>
                   /\ UNCHANGED <<gateVars, envVars, opsVars, callVars>>

\* A plausible slip: the loop ends at the first command that exits non-zero
setup_executed_StopAtFailure(todo, returncodes) ==
    LET bad == {i \in DOMAIN todo : returncodes[i] # 0}
    IN  IF bad = {} THEN todo
        ELSE SubSeq(todo, 1, CHOOSE i \in bad : \A j \in bad : i <= j)

\* The commands the setup loop executes: all of them, whatever their exit codes
setup_executed(todo, returncodes) == todo

\* _op_create: the setup commands, one exec each whatever the exit status of the
\* one before, then the setup_commands entry
SetupCommands ==
    /\ pc = "setup"
    /\ \E returncodes \in {r \in [DOMAIN cr.todo -> {0, 1}] :
                               Cardinality({i \in DOMAIN r : r[i] # 0}) <= MaxFailures} :
         LET results == [i \in DOMAIN cr.todo |-> returncodes[i] = 0]
             all_ok == \A i \in DOMAIN results : results[i]
         IN  /\ cr' = [cr EXCEPT !.results = results]
             /\ log' = log \o [i \in DOMAIN setup_executed(cr.todo, returncodes) |->
                                   Exec(cr.name, "setup_commands",
                                        setup_executed(cr.todo, returncodes)[i])]
             /\ report' = Append(report,
                                 Step("setup_commands", IF all_ok THEN "success" ELSE "partial"))
    /\ pc' = After("setup")
    /\ UNCHANGED <<inp, preflight_passed, runtime, store, containers, images, result>>
    /\ UNCHANGED <<gateVars, envVars, opsVars, callVars>>

\* A plausible slip: one metadata file shared by all containers
store_save_Shared(st, name, metadata) ==
    [n \in DOMAIN st \cup {PathOf(name)} |-> metadata]

\* MetadataStore.save: the record is written under the name, the others stay
store_save(st, name, metadata) ==
    [n \in DOMAIN st \cup {PathOf(name)} |-> IF n = PathOf(name) THEN metadata ELSE st[n]]

\* _op_create: chown of the workspace for the mapped user, then the metadata record
SaveMetadata ==
    /\ pc = "save"
    /\ log' = log \o (IF cr.exec_user # <<>>
                      THEN <<Exec(cr.name, "chown", <<"chown -R">> \o cr.exec_user)>>
                      ELSE <<>>)
                  \o (IF cr.compose_project # None
                      THEN <<Ev("compose ps", cr.compose_project, "compose", <<>>)>>
                      ELSE <<>>)
                  \o <<Ev("store.save", cr.name, "metadata", <<>>)>>
    /\ report' = report \o (IF cr.compose_project # None
                            THEN <<Step("compose", "success")>> ELSE <<>>)
    /\ store' = store_save(store, cr.name,
                           [name |-> cr.name, image |-> cr.image, purpose |-> cr.purpose,
                            env_keys |-> DOMAIN CreateEnvVars,
                            exec_user |-> cr.exec_user,
                            compose_project |-> cr.compose_project,
                            compose_file |-> cr.compose_file_path])
    /\ pc' = After("save")
    /\ UNCHANGED <<inp, cr, preflight_passed, runtime, containers, images, result>>
    /\ UNCHANGED <<gateVars, envVars, opsVars, callVars>>

\* A plausible slip: the outcome of the setup commands is not looked at
should_cache_AnySetup(purpose, cache_used, cache_bust, steps) ==
    purpose # None /\ ~cache_used /\ ~cache_bust

\* _op_create: whether the container is committed as the purpose's cache image
should_cache(purpose, cache_used, cache_bust, steps) ==
    LET found == {i \in DOMAIN steps : steps[i].name = "setup_commands"}
        setup_ok == IF found = {} THEN TRUE
                    ELSE steps[CHOOSE i \in found : \A j \in found : i <= j].status = "success"
    IN  purpose # None /\ ~cache_used /\ ~cache_bust /\ setup_ok

\* _cache_image: commit with the profile digest as the label, when there is one
cache_image(c, purpose) ==
    Ev("commit", c, "cache", CacheTag(purpose) \o get_profile_hash(purpose))

\* _op_create: the cache commit, then the success record
CacheCommit ==
    /\ pc = "commit"
    /\ IF should_cache(cr.purpose, cr.cache_used, cr.inp.cache_bust, report)
       THEN /\ log' = Append(log, cache_image(cr.name, cr.purpose))
            /\ images' = (CacheTag(cr.purpose) :> get_profile_hash(cr.purpose)) @@ images
       ELSE UNCHANGED <<log, images>>
    /\ result' = [kind |-> "success", success |-> TRUE, container |-> cr.name,
                  image |-> cr.image, purpose |-> cr.purpose, cache_used |-> cr.cache_used,
                  env_vars_injected |-> Cardinality(DOMAIN CreateEnvVars),
                  provisioning_report |-> report]
    /\ pc' = "done"
    /\ UNCHANGED <<inp, cr, preflight_passed, runtime, store, containers, report>>
    /\ UNCHANGED <<gateVars, envVars, opsVars, callVars>>

\* Whether the step about to run starts an engine process or writes the store
CallsOut ==
    CASE pc = "user"      -> cr.exec_user # <<>>
      [] pc = "git"       -> Get(cr.inp, "forward_git", TRUE)
      [] pc = "gh"        -> FALSE
      [] pc = "ssh"       -> Get(cr.inp, "forward_ssh", FALSE)
      [] pc = "dotfiles"  -> /\ ~Get(cr.inp, "dotfiles_skip", FALSE)
                             /\ (cr.inp.dotfiles_repo # None \/ cr.inp.dotfiles_inline # None)
      [] pc = "repos"     -> cr.inp.repos # <<>>
      [] pc = "config"    -> cr.inp.config_files # <<>>
      [] pc = "amplifier" -> cr.purpose = "amplifier"
      [] pc = "setup"     -> TRUE
      [] pc = "save"      -> TRUE
      [] pc = "commit"    -> should_cache(cr.purpose, cr.cache_used, cr.inp.cache_bust, report)
      [] OTHER            -> FALSE

\* An engine command or the store write raises (OSError from the process spawn or
\* the file system) inside the try block, and the except clause runs
Fault ==
    /\ pc \in Range(Pipeline)
    /\ CallsOut
    /\ Rollback
    /\ UNCHANGED <<inp, cr, preflight_passed, runtime, images, report>>
    /\ UNCHANGED <<gateVars, envVars, opsVars, callVars>>

(***************************************************************************)
(* Lifecycle and execution operations                                      *)
(***************************************************************************)
MaxRequests == 2     \* requests answered after the first one
MaxRetries == 2      \* largest retries a wait_healthy request sets

DefaultRetries == 15

\* uuid4().hex[:8] of exec_background
GeneratedJob == "j1"

\* An operation that answers in one step: the calls it made and its response
Answer(res, events) ==
    /\ result' = res
    /\ log' = log \o events
    /\ pc' = "done"

Error(text) == [kind |-> "error", error |-> text]

\* execute has returned and the next request can come
Return ==
    /\ pc = "done"
    /\ served < MaxRequests
    /\ served' = served + 1
    /\ pc' = "idle"
    /\ UNCHANGED <<inp, cr, preflight_passed, runtime, store, containers, images, log,
                   report, result, snapshots, jobs, probes>>
    /\ UNCHANGED <<gateVars, envVars, callVars>>

\* _op_exec, _op_exec_background: the user of the exec, None (<<>>) for root
op_exec_user(d, st) ==
    IF Get(d, "as_root", FALSE) THEN <<>>
    ELSE LET metadata == store_load(st, d.container)
         IN  IF metadata # Absent THEN metadata[1].exec_user ELSE <<>>

\* exec_args after "exec": the optional --user, the container, the shell command
ExecArgs(exec_user, container, command) ==
    (IF exec_user # <<>> THEN <<"--user">> \o exec_user ELSE <<>>)
    \o <<container, "/bin/sh", "-c", command>>

\* Exit codes of an exec: a container that is not there cannot run anything
ExecCodes(rt, container) == IF rt # None /\ container \in containers THEN {0, 1} ELSE {1}

OpExec ==
    /\ pc = "exec"
    /\ IF ~Truthy(inp.container) \/ ~Truthy(inp.command)
       THEN /\ Answer(Error("Both 'container' and 'command' are required"), <<>>)
            /\ runtime' = runtime
       ELSE \E on_path \in EnginePaths :
              LET rt == detect(runtime, on_path)
              IN  \E returncode \in ExecCodes(rt, inp.container) :
                    /\ runtime' = rt
                    /\ Answer([kind |-> "exec", returncode |-> returncode,
                               timed_out |-> returncode = -1],
                              <<Ev("exec", inp.container, "exec",
                                   ExecArgs(op_exec_user(inp, store), inp.container,
                                            <<inp.command>>))>>)
    /\ UNCHANGED <<inp, cr, preflight_passed, store, containers, images, report>>
    /\ UNCHANGED <<gateVars, envVars, opsVars, callVars>>

OpExecBackground ==
    /\ pc = "exec_background"
    /\ IF ~Truthy(inp.container) \/ ~Truthy(inp.command)
       THEN /\ Answer(Error("Both 'container' and 'command' are required"), <<>>)
            /\ runtime' = runtime
       ELSE \E on_path \in EnginePaths :
              LET rt == detect(runtime, on_path)
              IN  \E returncode \in ExecCodes(rt, inp.container) :
                    /\ runtime' = rt
                    /\ Answer([kind |-> "job", job_id |-> GeneratedJob,
                               pid |-> IF returncode = 0 THEN "4711" ELSE "",
                               container |-> inp.container, command |-> inp.command],
                              <<Ev("exec", inp.container, "exec_background",
                                   ExecArgs(op_exec_user(inp, store), inp.container,
                                            <<"(/bin/sh -c '", inp.command,
                                              "'; echo $? > .exit) > .out 2>&1 & echo $! > .pid",
                                              GeneratedJob>>))>>)
    /\ UNCHANGED <<inp, cr, preflight_passed, store, containers, images, report>>
    /\ UNCHANGED <<gateVars, envVars, opsVars, callVars>>

\* str.isdigit on what cat printed
isdigit(str) == str \in {"0", "1"}

\* A plausible slip: the liveness of the PID is asked first
poll_running_PidFirst(ec_str, pid_stdout) == pid_stdout = "running"

\* _op_exec_poll: running, from the content of .exit and the answer of kill -0
poll_running(ec_str, pid_stdout) ==
    IF isdigit(ec_str) THEN FALSE ELSE pid_stdout = "running"

OpExecPoll ==
    /\ pc = "exec_poll"
    /\ IF ~Truthy(inp.container) \/ ~Truthy(inp.job_id)
       THEN /\ Answer(Error("Both 'container' and 'job_id' are required"), <<>>)
            /\ UNCHANGED <<runtime, jobs>>
       ELSE \* w: the content of .exit if it is there, and whether the PID in .pid
            \* belongs to a live process (the job or, once reused, another one)
            \E on_path \in EnginePaths, w \in [exit : {None, "0", "1"}, pid_alive : BOOLEAN] :
              LET rt == detect(runtime, on_path)
                  reachable == rt # None /\ inp.container \in containers
                  ec_str == IF reachable /\ w.exit # None THEN w.exit ELSE ""
                  pid_stdout == IF ~reachable THEN ""
                                ELSE IF w.pid_alive THEN "running" ELSE "done"
                  call(what) == Ev("exec", inp.container, "exec_poll",
                                   <<inp.container, "/bin/sh", "-c", what, inp.job_id>>)
              IN  /\ runtime' = rt
                  /\ jobs' = [j \in {inp.job_id} |-> w]
                  /\ Answer([kind |-> "poll", job_id |-> inp.job_id,
                             running |-> poll_running(ec_str, pid_stdout),
                             exit_code |-> IF isdigit(ec_str) THEN ec_str ELSE None],
                            <<call("cat .exit")>>
                            \o (IF isdigit(ec_str) THEN <<>> ELSE <<call("kill -0 $(cat .pid)")>>)
                            \o <<call("tail -100 .out")>>)
    /\ UNCHANGED <<inp, cr, preflight_passed, store, containers, images, report, served,
                   snapshots, probes>>
    /\ UNCHANGED <<gateVars, envVars, callVars>>

\* A plausible slip: range(1, retries) instead of range(1, retries + 1)
last_attempt_OffByOne(retries) == retries - 1

\* _op_wait_healthy: the last value of `for attempt in range(1, retries + 1)`
last_attempt(retries) == retries

\* _op_wait_healthy: the loop from one attempt on; the probe of attempt `first`
\* is the first that exits 0 (none does when first = 0)
RECURSIVE wait_loop(_, _, _, _)
wait_loop(attempt, retries, first, codes) ==
    IF attempt > last_attempt(retries)
    THEN [healthy |-> FALSE, attempts |-> retries, codes |-> codes]
    ELSE LET returncode == IF attempt = first THEN 0 ELSE 1
         IN  IF returncode = 0
             THEN [healthy |-> TRUE, attempts |-> attempt, codes |-> Append(codes, returncode)]
             ELSE wait_loop(attempt + 1, retries, first, Append(codes, returncode))

OpWaitHealthy ==
    /\ pc = "wait_healthy"
    /\ IF ~Truthy(inp.container) \/ ~Truthy(inp.health_command)
       THEN /\ Answer(Error("Both 'container' and 'health_command' are required"), <<>>)
            /\ UNCHANGED <<runtime, probes>>
       ELSE \E on_path \in EnginePaths :
              LET rt == detect(runtime, on_path)
                  retries == Get(inp, "retries", DefaultRetries)
              IN  \E first \in (IF rt # None /\ inp.container \in containers
                                THEN 0..retries ELSE {0}) :
                    LET r == wait_loop(1, retries, first, <<>>)
                    IN  /\ runtime' = rt
                        /\ probes' = r.codes
                        /\ Answer([kind |-> "health", healthy |-> r.healthy,
                                   container |-> inp.container, attempts |-> r.attempts],
                                  [i \in DOMAIN r.codes |->
                                      Ev("exec", inp.container, "wait_healthy",
                                         <<inp.container, "/bin/sh", "-c", inp.health_command>>)])
    /\ UNCHANGED <<inp, cr, preflight_passed, store, containers, images, report, served,
                   snapshots, jobs>>
    /\ UNCHANGED <<gateVars, envVars, callVars>>

\* _op_list: the names listed; nothing when the engine call fails
op_list(rt, cs, ps_ok) ==
    IF rt # None /\ ps_ok THEN SelectSeq(<<"amp-1", "c1", "c2">>, LAMBDA n : n \in cs)
    ELSE <<>>

OpList ==
    /\ pc = "list"
    /\ \E on_path \in EnginePaths, ps_ok \in BOOLEAN :
         LET rt == detect(runtime, on_path)
             listed == op_list(rt, containers, ps_ok)
         IN  /\ runtime' = rt
             /\ Answer([kind |-> "list", containers |-> listed, count |-> Len(listed)],
                       <<Ev("ps", None, "list", <<>>)>>)
    /\ UNCHANGED <<inp, cr, preflight_passed, store, containers, images, report>>
    /\ UNCHANGED <<gateVars, envVars, opsVars, callVars>>

\* A plausible slip: the record is removed only when rm -f exited 0
destroy_removes_record_OnSuccess(rm_returncode) == rm_returncode = 0

\* _op_destroy: store.remove is called whatever rm -f returned
destroy_removes_record(rm_returncode) == TRUE

\* _op_destroy past the check of its argument: compose down and the temp compose
\* file if the record names a project, stop or kill, rm -f, store.remove.
\* w: the exit codes of stop/kill and of rm -f
op_destroy(st, cs, rt, container, force, w) ==
    LET metadata == store_load(st, container)
        compose_project == IF metadata # Absent THEN metadata[1].compose_project ELSE None
        compose_file == IF metadata # Absent THEN metadata[1].compose_file ELSE NoPath
        stop_cmd == IF force THEN "kill" ELSE "stop"
    IN  [events |->
             (IF compose_project # None
              THEN <<Ev("compose down", compose_project, "destroy", <<>>)>>
                   \o (IF /\ TruthyPath(compose_file)
                          /\ "/tmp/" \in Range(compose_file)
                          /\ "amp-compose-" \in Range(compose_file)
                       THEN <<Ev("tempfile.unlink", compose_project, "destroy", compose_file)>>
                       ELSE <<>>)
              ELSE <<>>)
             \o <<Ev(stop_cmd, container, "destroy", <<>>),
                  Ev("rm -f", container, "destroy", <<>>)>>
             \o (IF destroy_removes_record(w.rm)
                 THEN <<Ev("store.remove", container, "destroy", <<>>)>> ELSE <<>>),
         containers |-> IF rt # None THEN cs \ {container} ELSE cs,
         store |-> IF destroy_removes_record(w.rm) THEN store_remove(st, container) ELSE st,
         result |-> [kind |-> "destroy", success |-> w.rm = 0, container |-> container]]

\* Exit codes of stop/kill and rm -f as the engine can give them
DestroyCodes(rt) ==
    IF rt # None THEN [stop : {0, 1}, rm : {0, 1}] ELSE {[stop |-> 1, rm |-> 1]}

OpDestroy ==
    /\ pc = "destroy"
    /\ IF ~Truthy(inp.container)
       THEN /\ Answer(Error("'container' is required"), <<>>)
            /\ UNCHANGED <<runtime, store, containers>>
       ELSE \E on_path \in EnginePaths :
              LET rt == detect(runtime, on_path)
              IN  \E w \in DestroyCodes(rt) :
                    LET d == op_destroy(store, containers, rt, inp.container, inp.force, w)
                    IN  /\ runtime' = rt
                        /\ store' = d.store
                        /\ containers' = d.containers
                        /\ Answer(d.result, d.events)
    /\ UNCHANGED <<inp, cr, preflight_passed, images, report>>
    /\ UNCHANGED <<gateVars, envVars, opsVars, callVars>>

\* A plausible slip: destroy_all goes ahead without the confirmation
confirmed_AnyRequest(d) == TRUE

\* _op_destroy_all: inp.get("confirm", False)
confirmed(d) == d.confirm

\* _op_destroy_all: _op_destroy(force=True) for every listed name, in order
RECURSIVE destroy_each(_, _, _, _, _, _)
destroy_each(names, st, cs, rt, w, done) ==
    IF names = <<>>
    THEN [store |-> st, containers |-> cs, events |-> done.events, results |-> done.results]
    ELSE LET d == op_destroy(st, cs, rt, Head(names), TRUE, w)
         IN  destroy_each(Tail(names), d.store, d.containers, rt, w,
                          [events |-> done.events \o d.events,
                           results |-> Append(done.results, d.result)])

OpDestroyAll ==
    /\ pc = "destroy_all"
    /\ IF ~confirmed(inp)
       THEN /\ Answer(Error("Set confirm=true to destroy all managed containers"), <<>>)
            /\ UNCHANGED <<runtime, store, containers>>
       ELSE \E on_path \in EnginePaths, ps_ok \in BOOLEAN :
              LET rt == detect(runtime, on_path)
              IN  \E w \in DestroyCodes(rt) :
                    LET all == destroy_each(op_list(rt, containers, ps_ok), store, containers,
                                            rt, w, [events |-> <<Ev("ps", None, "list", <<>>)>>,
                                                    results |-> <<>>])
                    IN  /\ runtime' = rt
                        /\ store' = all.store
                        /\ containers' = all.containers
                        /\ Answer([kind |-> "destroy_all", destroyed |-> Len(all.results),
                                   results |-> all.results], all.events)
    /\ UNCHANGED <<inp, cr, preflight_passed, images, report>>
    /\ UNCHANGED <<gateVars, envVars, opsVars, callVars>>

OpSnapshot ==
    /\ pc = "snapshot"
    /\ LET snapshot_name == GetStr(inp, "name", GetStr(inp, "snapshot", ""))
       IN  IF ~Truthy(inp.container) \/ ~Truthy(snapshot_name)
           THEN /\ Answer(Error("Both 'container' and 'name' are required"), <<>>)
                /\ UNCHANGED <<runtime, snapshots>>
           ELSE \E on_path \in EnginePaths :
                  LET rt == detect(runtime, on_path)
                  IN  \E returncode \in ExecCodes(rt, inp.container) :
                        /\ runtime' = rt
                        /\ snapshots' = IF returncode = 0
                                        THEN snapshots \cup {snapshot_name} ELSE snapshots
                        /\ Answer([kind |-> "snapshot", success |-> returncode = 0,
                                   snapshot |-> snapshot_name,
                                   image |-> SnapshotTag(snapshot_name)],
                                  <<Ev("commit", inp.container, "snapshot",
                                       SnapshotTag(snapshot_name))>>)
    /\ UNCHANGED <<inp, cr, preflight_passed, store, containers, images, report, served,
                   jobs, probes>>
    /\ UNCHANGED <<gateVars, envVars, callVars>>

\* _op_restore: the image is set to the snapshot and _op_create is called
OpRestore ==
    /\ pc = "restore"
    /\ IF ~Truthy(inp.snapshot)
       THEN /\ Answer(Error("'snapshot' is required"), <<>>)
            /\ inp' = inp
       ELSE /\ inp' = [inp EXCEPT !.image = SnapshotTag(inp.snapshot),
                                  !.operation = "create"]
            /\ pc' = "create"
            /\ UNCHANGED <<log, result>>
    /\ UNCHANGED <<cr, preflight_passed, runtime, store, containers, images, report>>
    /\ UNCHANGED <<gateVars, envVars, opsVars, callVars>>

\* The requests of a session that creates, uses, snapshots and destroys containers
OpRequest(op) == [DefaultCreate EXCEPT !.operation = op, !.forward_git = Some(FALSE)]

OpsRequests ==
    {[OpRequest("create") EXCEPT !.name = "c1"],
     [OpRequest("create") EXCEPT !.name = "c2", !.user = <<"root">>],
     [OpRequest("create") EXCEPT !.name = "c2", !.purpose = "python"],
     [OpRequest("create") EXCEPT !.name = "c1", !.compose_content = "services: db",
                                 !.compose_file = <<"/host/compose.yml">>],
     [OpRequest("create") EXCEPT !.name = "c1", !.compose_content = "services: db"],
     [OpRequest("create") EXCEPT !.name = "c1", !.compose_content = "",
                                 !.compose_file = <<"/host/compose.yml">>],
     [OpRequest("restore") EXCEPT !.snapshot = "s1", !.name = "c2"],
     [OpRequest("restore") EXCEPT !.snapshot = "s1", !.name = "c2", !.purpose = "python"],
     OpRequest("restore"),
     [OpRequest("snapshot") EXCEPT !.container = "c1", !.name = "s1"],
     [OpRequest("snapshot") EXCEPT !.container = "c1"],
     [OpRequest("destroy") EXCEPT !.container = "c1"],
     [OpRequest("destroy") EXCEPT !.container = "c2", !.force = TRUE],
     OpRequest("destroy"),
     OpRequest("destroy_all"),
     [OpRequest("destroy_all") EXCEPT !.confirm = TRUE],
     OpRequest("list"),
     [OpRequest("exec") EXCEPT !.container = "c1", !.command = "make test"],
     [OpRequest("exec") EXCEPT !.container = "c1", !.command = "make test",
                               !.as_root = Some(TRUE)],
     [OpRequest("exec") EXCEPT !.container = "c2", !.command = "make test",
                               !.as_root = Some(FALSE)],
     [OpRequest("exec") EXCEPT !.container = "c1"],
     [OpRequest("exec_background") EXCEPT !.container = "c1", !.command = "make test"],
     [OpRequest("exec_background") EXCEPT !.container = "c1", !.command = "make test",
                                          !.as_root = Some(TRUE)],
     [OpRequest("exec_poll") EXCEPT !.container = "c1", !.job_id = GeneratedJob],
     [OpRequest("exec_poll") EXCEPT !.container = "c1"],
     [OpRequest("wait_healthy") EXCEPT !.container = "c1"],
     [OpRequest("wait_healthy") EXCEPT !.container = "c1", !.health_command = "curl -f localhost"]}
    \cup {[OpRequest("wait_healthy") EXCEPT !.container = "c1",
                                            !.health_command = "curl -f localhost",
                                            !.retries = Some(n)] : n \in 0..MaxRetries}

(***************************************************************************)
(* Helpers, called directly                                                *)
(***************************************************************************)
MaxPathLen == 3      \* tokens of a host path

\* Host paths: "/" and directory names in any order, and the path of the example
HostPaths ==
    SeqsUpTo({"/", "home", "etc", "user", "projects"}, MaxPathLen)
    \cup {<<"/", "home", "/", "user", "/", "projects">>}

\* _is_sensitive_path reads nothing but its argument and the configured prefixes:
\* it is called once, before anything else
IsSensitivePath ==
    /\ pc = "off"
    /\ called = NoCall
    /\ \E path \in HostPaths :
         called' = [fn |-> "_is_sensitive_path", path |-> path,
                    result |-> _is_sensitive_path(path)]
    /\ UNCHANGED <<saved, loaded>>
    /\ UNCHANGED <<gateVars, envVars, toolVars, opsVars>>

MaxTracked == 3      \* longest session list the post hook is called on

\* handle_tool_post called with any event, whatever the pre hook said before
ToolPost ==
    /\ pc = "off"
    /\ \E tool_name \in {"containers", "bash"}, op \in GateOperations, c \in Names :
       \E out \in ToolOutputs(op) :
       LET tool_input == PlainInput(op, c)
       IN
         /\ tool_input.operation = "create" => Len(session_containers) < MaxTracked
         /\ session_containers' =
                handle_tool_post(tool_name, tool_input.operation, tool_input.container,
                                 out, session_containers)
         /\ called' = [fn |-> "handle_tool_post", tool_name |-> tool_name,
                       operation |-> tool_input.operation,
                       container |-> tool_input.container, out |-> out,
                       before |-> session_containers]
    /\ UNCHANGED <<require_approval, max_containers, auto_cleanup, req, last_hook>>
    /\ UNCHANGED <<saved, loaded>>
    /\ UNCHANGED <<envVars, toolVars, opsVars>>

\* handle_session_end called at any time
SessionEnd ==
    /\ pc = "off"
    /\ called' = [fn |-> "handle_session_end", before |-> session_containers,
                  result |-> handle_session_end(session_containers, auto_cleanup)]
    /\ UNCHANGED <<saved, loaded>>
    /\ UNCHANGED <<gateVars, envVars, toolVars, opsVars>>

\* provision_gh_auth called with the env vars extract_gh_token can return (none,
\* or both names with the token) and with an empty token
ProvisionGhAuth ==
    /\ pc = "off"
    /\ called = NoCall
    /\ \E token \in {GhAuthToken, ""}, given \in BOOLEAN,
          verify \in {GhAuthToken, ""}, gh_check \in {0, 1} :
         LET gh_env_vars == IF given
                            THEN [k \in {"GH_TOKEN", "GITHUB_TOKEN"} |-> token]
                            ELSE EmptyDict
         IN  called' = [fn |-> "provision_gh_auth", gh_env_vars |-> gh_env_vars,
                        verify |-> verify, gh_check |-> gh_check,
                        result |-> provision_gh_auth("c1", gh_env_vars, verify, gh_check)]
    /\ UNCHANGED <<saved, loaded>>
    /\ UNCHANGED <<gateVars, envVars, toolVars, opsVars>>

MaxEntries == 2      \* entries of the host's ~/.gitconfig

\* provision_git called on a host whose ~/.gitconfig holds any entries of these
\* sections; `git config --global user.name/user.email` resolves what is there
ProvisionGitCall ==
    /\ pc = "off"
    /\ called = NoCall
    /\ \E host \in {"no_gitconfig", "cp_failed", "copied"}, inject_returncode \in {0, 1},
          host_config \in SeqsUpTo({<<"user", "name">>, <<"user", "email">>,
                                     <<"alias", "co">>, <<"credential", "helper">>,
                                     <<"include", "path">>, <<"includeIf", "path">>,
                                     <<"http", "proxy">>, <<"safe", "directory">>},
                                    MaxEntries) :
         LET resolved == SelectSeq(<<"name", "email">>,
                                   LAMBDA k : <<"user", k>> \in Range(host_config))
         IN  called' = [fn |-> "provision_git", host |-> host, host_config |-> host_config,
                        result |-> provision_git("c1", None, host),
                        written |-> gitconfig_written(host_config, host, resolved,
                                                      inject_returncode)]
    /\ UNCHANGED <<saved, loaded>>
    /\ UNCHANGED <<gateVars, envVars, toolVars, opsVars>>

\* fix_ssh_permissions called in a container where any of its commands may fail
FixSshPermissions ==
    /\ pc = "off"
    /\ called = NoCall
    /\ \E failing \in SUBSET DOMAIN SshCommands :
         called' = [fn |-> "fix_ssh_permissions", failing |-> failing,
                    result |-> fix_ssh_permissions("c1", None, failing)]
    /\ UNCHANGED <<saved, loaded>>
    /\ UNCHANGED <<gateVars, envVars, toolVars, opsVars>>

HelperNext ==
    \/ IsSensitivePath
    \/ FixSshPermissions
    \/ ProvisionGitCall
    \/ ProvisionGhAuth
    \/ ToolPost
    \/ SessionEnd

(***************************************************************************)
(* MetadataStore, called directly                                          *)
(***************************************************************************)
\* Names handed to the store: container names, a name with a "/" in it, and the
\* name that pathlib resolves to containers_dir itself
StoreNames == {"c1", "c2", "c1/x", "."}

\* store.save(name, metadata)
StoreSave ==
    /\ pc = "off"
    /\ \E name \in StoreNames, metadata \in {[image |-> <<"ubuntu", "24.04">>],
                                              [image |-> <<"python", "3.12-slim">>]} :
         /\ store' = store_save(store, name, metadata)
         /\ saved' = [n \in DOMAIN saved \cup {name} |->
                          IF n = name THEN metadata ELSE saved[n]]
    /\ UNCHANGED <<loaded, called, pc, inp, cr, preflight_passed, runtime, containers, images,
                   log, report, result>>
    /\ UNCHANGED <<gateVars, envVars, opsVars>>

\* store.remove(name)
StoreRemove ==
    /\ pc = "off"
    /\ \E name \in StoreNames :
         /\ store' = store_remove(store, name)
         /\ saved' = [n \in DOMAIN saved \ {name} |-> saved[n]]
    /\ UNCHANGED <<loaded, called, pc, inp, cr, preflight_passed, runtime, containers, images,
                   log, report, result>>
    /\ UNCHANGED <<gateVars, envVars, opsVars>>

\* store.load(name)
StoreLoad ==
    /\ pc = "off"
    /\ \E name \in StoreNames :
         loaded' = [name |-> name, record |-> store_load(store, name)]
    /\ UNCHANGED <<saved, called, toolVars>>
    /\ UNCHANGED <<gateVars, envVars, opsVars>>

StoreNext == StoreSave \/ StoreRemove \/ StoreLoad

(***************************************************************************)
(* Specifications                                                          *)
(***************************************************************************)
vars == <<gateVars, envVars, toolVars, opsVars, callVars>>

GateIdle ==
    /\ require_approval = ApprovalCategories
    /\ max_containers = 1
    /\ auto_cleanup = TRUE
    /\ session_containers = <<>>
    /\ req = [i \in Slots |-> IdleReq]
    /\ last_hook = NoHook

EnvIdle == env_pc = "idle" /\ env_in = None /\ env_out = None

ToolIdle ==
    /\ pc = "off"
    /\ inp = NoRequest
    /\ cr = NoFrame
    /\ preflight_passed = FALSE
    /\ runtime = None
    /\ store = [n \in {} |-> None]
    /\ containers = {}
    /\ images = [t \in {} |-> None]
    /\ log = <<>>
    /\ report = <<>>
    /\ result = NoResult
    /\ served = 0
    /\ snapshots = {}
    /\ jobs = NoJobs
    /\ probes = <<>>
    /\ saved = NoRecords
    /\ loaded = NoLoad
    /\ called = NoCall

OpsNext ==
    \/ ExecuteFrom(OpsRequests)
    \/ Return
    \/ Preflight
    \/ OpCreate
    \/ CacheLookup
    \/ EngineRun
    \/ CreateUser
    \/ ProvisionGit
    \/ ProvisionGh
    \/ FixSsh
    \/ ProvisionDotfiles
    \/ ProvisionRepos
    \/ ProvisionConfigFiles
    \/ ProvisionAmplifier
    \/ SetupCommands
    \/ SaveMetadata
    \/ CacheCommit
    \/ Fault
    \/ OpRestore
    \/ OpSnapshot
    \/ OpDestroy
    \/ OpDestroyAll
    \/ OpList
    \/ OpExec
    \/ OpExecBackground
    \/ OpExecPoll
    \/ OpWaitHealthy

ToolNext ==
    \/ ExecuteFrom(ToolRequests)
    \/ Preflight
    \/ OpCreate
    \/ CacheLookup
    \/ EngineRun
    \/ CreateUser
    \/ ProvisionGit
    \/ ProvisionGh
    \/ FixSsh
    \/ ProvisionDotfiles
    \/ ProvisionRepos
    \/ ProvisionConfigFiles
    \/ ProvisionAmplifier
    \/ SetupCommands
    \/ SaveMetadata
    \/ CacheCommit
    \/ Fault

Init == ToolInit /\ GateIdle /\ EnvIdle

InitGate == GateInit /\ EnvIdle /\ ToolIdle

InitEnv == EnvInit /\ GateIdle /\ ToolIdle

Spec == Init /\ [][ToolNext]_vars

SpecGate == InitGate /\ [][GateNext]_vars

SpecEnv == InitEnv /\ [][EnvNext]_vars

InitStore == ToolIdle /\ GateIdle /\ EnvIdle

SpecStore == InitStore /\ [][StoreNext]_vars

SpecHelpers == InitGate /\ [][HelperNext]_vars

\* The engine outlives the tool: a new instance can find the snapshot image an
\* earlier one committed
InitOps == (\E earlier \in SUBSET {"s1"} : ToolStart(earlier)) /\ GateIdle /\ EnvIdle

SpecOps == InitOps /\ [][OpsNext]_vars

(***************************************************************************)
(* Claims                                                                  *)
(***************************************************************************)

\* C1: for a containers request with operation create, handle_tool_pre returns
\* deny exactly when the session list holds max_containers or more names, whatever
\* approval reasons the request raises; a deny that was returned was returned at
\* the limit.
C1_QuotaDeny ==
    /\ \A tool_input \in GateInputs :
          tool_input.operation = "create" =>
            (handle_tool_pre("containers", tool_input, session_containers,
                             require_approval, max_containers).action = "deny"
             <=> Len(session_containers) >= max_containers)
    /\ (last_hook.hook = "pre" /\ last_hook.action = "deny")
          => Len(session_containers) >= max_containers

\* C1 witness: a create that raised approval reasons was denied at the limit
C1_Witness ==
    /\ last_hook.hook = "pre"
    /\ last_hook.action = "deny"
    /\ last_hook.raised
    /\ Len(session_containers) >= max_containers

\* C2: under every interleaving of the pre and post hooks of concurrent create
\* requests, the session list never holds more than max_containers names.
C2_QuotaNeverExceeded == Len(session_containers) <= max_containers

\* C3: the env returned by resolve_env_passthrough holds no NEVER_PASSTHROUGH
\* variable taken from the host environment (only the request's own env may set one).
C3_NeverPassthrough ==
    env_pc = "returned" =>
        \A k \in DOMAIN env_out :
            k \in NEVER_PASSTHROUGH => k \in DOMAIN env_in.extra_env

\* Reading the log of one create
IsProvisioning(e) == e.k \in {"exec", "cp"}

IsSetup(e) == e.k = "exec" /\ e.s = "setup_commands"

Issued(kind) == {i \in DOMAIN log : log[i].k = kind}

\* The place of a step in the order user, env_passthrough, git, gh, ssh, dotfiles,
\* repos, config_files, amplifier settings, setup_commands, chown
Rank(name) ==
    CASE name = "user"               -> 0
      [] name = "env_passthrough"    -> 1
      [] name = "forward_git"        -> 2
      [] name = "forward_gh"         -> 3
      [] name = "forward_ssh"        -> 4
      [] name = "dotfiles"           -> 5
      [] name = "dotfiles_inline"    -> 5
      [] name = "repos"              -> 6
      [] name = "config_files"       -> 7
      [] name = "amplifier_settings" -> 8
      [] name = "setup_commands"     -> 9
      [] name = "chown"              -> 10
      [] name = "compose"            -> 11

ReportNames == [i \in DOMAIN report |-> report[i].name]

\* The entries a finished create has to report, in order
ExpectedReport ==
    <<"env_passthrough", "forward_git", "forward_gh", "forward_ssh",
      IF /\ ~Get(cr.inp, "dotfiles_skip", FALSE)
         /\ cr.inp.dotfiles_repo = None
         /\ cr.inp.dotfiles_inline # None
      THEN "dotfiles_inline" ELSE "dotfiles",
      "repos", "config_files">>
    \o (IF cr.purpose = "amplifier" THEN <<"amplifier_settings">> ELSE <<>>)
    \o (IF final_setup_commands(cr.inp, cr.purpose) # <<>> THEN <<"setup_commands">> ELSE <<>>)
    \o (IF cr.compose_project # None THEN <<"compose">> ELSE <<>>)

Succeeded == result.kind = "success"

\* C4: in a create, the provisioning commands come in one run of the log that
\* starts right after the engine run, so none is issued before it; the
\* provisioning commands and the report entries follow the order env_passthrough,
\* git, gh, ssh, dotfiles, repos, config_files, amplifier settings, setup_commands;
\* the metadata record is saved after every provisioning command and before any
\* cache commit; a successful create has reported every step and saved the record.
C4_PipelineOrder ==
    /\ \A i \in DOMAIN log :
          IsProvisioning(log[i]) =>
              /\ i > 1
              /\ \/ log[i - 1].k = "run"
                 \/ /\ IsProvisioning(log[i - 1])
                    /\ Rank(log[i - 1].s) <= Rank(log[i].s)
    /\ \A i \in 1..(Len(report) - 1) : Rank(report[i].name) < Rank(report[i + 1].name)
    /\ \A i \in Issued("store.save") :
          \A j \in DOMAIN log : IsProvisioning(log[j]) => j < i
    /\ \A i \in Issued("commit") : \E j \in Issued("store.save") : j < i
    /\ Succeeded => /\ ReportNames = ExpectedReport
                    /\ result.provisioning_report = report
                    /\ Issued("store.save") # {}

\* C4 witness: a successful amplifier create that reported all nine steps, ran
\* provisioning commands of several steps and committed the cache image
C4_Witness ==
    /\ Succeeded
    /\ Len(report) = 9
    /\ Issued("commit") # {}
    /\ \E i, j \in DOMAIN log : /\ IsProvisioning(log[i]) /\ log[i].s = "forward_git"
                                /\ IsSetup(log[j])

SetupOk == \A i \in DOMAIN report :
               report[i].name = "setup_commands" => report[i].status = "success"

CacheWanted == cr.purpose # None /\ ~cr.cache_used /\ ~cr.inp.cache_bust /\ SetupOk

\* C5: a create that reaches its end commits the container as
\* amplifier-cache:<purpose> exactly when a purpose is set, no cached image was used,
\* cache_bust is not set and the setup_commands step is absent or ended success; a
\* commit is never issued otherwise, and it carries the tag and the profile digest.
C5_CommitIff ==
    /\ Succeeded => (Issued("commit") # {} <=> CacheWanted)
    /\ \A i \in Issued("commit") :
          /\ CacheWanted
          /\ log[i] = Ev("commit", cr.name, "cache",
                         CacheTag(cr.purpose) \o get_profile_hash(cr.purpose))

\* C5 witness: a successful create whose setup commands all succeeded and that
\* committed the cache image
C5_Witness ==
    /\ Succeeded
    /\ Issued("commit") # {}
    /\ \E i \in DOMAIN report : report[i] = Step("setup_commands", "success")

SetupRan == LET ran == SelectSeq(log, IsSetup) IN [i \in DOMAIN ran |-> ran[i].w]

ProfileCommands ==
    IF cr.purpose \in KnownPurposes THEN Range(purpose_setup(cr.purpose)) ELSE {}

\* C6: a create that returns cache_used = true ran none of the purpose profile's
\* setup commands in the container, and ran every setup command of the request,
\* in the order given.
C6_CachedSetup ==
    (Succeeded /\ result.cache_used) =>
        LET given == Get(inp, "setup_commands", <<>>)
        IN  /\ \A i \in DOMAIN SetupRan : SetupRan[i] \notin ProfileCommands
            /\ \E k \in 0..(Len(SetupRan) - Len(given)) :
                  SubSeq(SetupRan, k + 1, k + Len(given)) = given

\* C6 witness: a successful create from the cached image of a purpose whose profile
\* has setup commands, with two setup commands of its own
C6_Witness ==
    /\ Succeeded
    /\ result.cache_used
    /\ ProfileCommands # {}
    /\ Len(Get(inp, "setup_commands", <<>>)) = 2
    /\ Len(SetupRan) >= 2

RunRefused == cr.name # None /\ cr.returncode # 0

\* C7: when the engine run of a create exits non-zero, the create issues rm -f for
\* the name right after the run, returns the error with the command hint, issues no
\* provisioning command and saves no metadata record.
C7_RunFailure ==
    RunRefused =>
        /\ pc = "done"
        /\ result.kind = "error"
        /\ result.error = "Failed to create container"
        /\ result.command_hint = <<runtime, "run">> \o RunArgs(cr)
        /\ Len(log) >= 2
        /\ log[Len(log) - 1] = Ev("run", cr.name, "create", RunArgs(cr))
        /\ log[Len(log)] = Ev("rm -f", cr.name, "create", <<>>)
        /\ \A i \in DOMAIN log : ~IsProvisioning(log[i])
        /\ Issued("store.save") = {}
        /\ cr.name \notin DOMAIN store

\* C7 witness: a create with a purpose whose engine run exited non-zero
C7_Witness ==
    /\ RunRefused
    /\ pc = "done"
    /\ cr.purpose # None
    /\ Issued("rm -f") # {}

RolledBack == result.kind = "error" /\ result.error = "Container created but setup failed"

\* C8: when create returns the error that carries cleanup, the engine had accepted
\* the run, rm -f has been issued for the container after it, the container is gone
\* and the metadata store holds no record under its name.
C8_Rollback ==
    RolledBack =>
        /\ result.cleanup = "Container was automatically removed"
        /\ \E i \in Issued("run") : \E j \in Issued("rm -f") : i < j /\ log[j].t = cr.name
        /\ cr.name \notin containers
        /\ cr.name \notin DOMAIN store

\* C8 witness: the exception came after the metadata record had been saved
C8_Witness ==
    /\ RolledBack
    /\ Issued("store.save") # {}
    /\ Issued("store.remove") # {}

\* C9: a create whose run was accepted and in which nothing raised ends as a
\* success whatever the statuses of its steps: every step is in the report, the
\* report is returned, and the metadata record is saved.
C9_StepsNeverAbort ==
    (pc = "done" /\ Issued("run") # {} /\ ~RunRefused /\ ~RolledBack) =>
        /\ Succeeded
        /\ result.success
        /\ ReportNames = ExpectedReport
        /\ result.provisioning_report = report
        /\ cr.name \in DOMAIN store

\* C9 witness: a successful create that reports a failed step and a partial step,
\* with steps after the failed one
C9_Witness ==
    /\ Succeeded
    /\ cr.name \in DOMAIN store
    /\ \E i, j \in DOMAIN result.provisioning_report :
          /\ i < j
          /\ result.provisioning_report[i].status = "failed"
          /\ result.provisioning_report[j].status = "partial"

NotReady == result.kind = "error" /\ result.error = "Container runtime not ready"

\* C10: a create submitted while no preflight has passed runs the preflight first:
\* the handler is entered only once a preflight has reported ready, no engine run
\* is issued before that, and a preflight that is not ready ends the request with
\* the error record and without an engine run.
C10_PreflightBlocks ==
    /\ (inp.operation = "create" /\ pc \notin {"idle", "preflight"} /\ ~NotReady)
          => preflight_passed
    /\ Issued("run") # {} => preflight_passed
    /\ NotReady => /\ ~result.preflight.ready
                   /\ ~preflight_passed
                   /\ pc = "done"
                   /\ log = <<>>
                   /\ containers = {}

\* C10 witness: an engine was found but the preflight was not ready
C10_Witness ==
    /\ NotReady
    /\ inp.operation = "create"
    /\ result.preflight.runtime # None

\* What the callers of the store expect load(name) to return
Expected(name) == IF name \in DOMAIN saved THEN Some(saved[name]) ELSE Absent

\* C17: after any sequence of save, remove and load calls, load(name) returns the
\* record most recently saved under that name, or nothing if the name was never
\* saved or was removed since; so a remove of a name that holds no record changes
\* no name's record.
C17_StoreLoadsLastSave ==
    \A name \in StoreNames : store_load(store, name) = Expected(name)

\* The approval categories whose trigger a request carries
Triggered(tool_input) ==
    LET create == tool_input.operation = "create"
    IN  {c \in ApprovalCategories :
            CASE c = "gpu_access"          -> create /\ tool_input.gpu
              [] c = "host_network"        -> create /\ tool_input.network = "host"
              [] c = "sensitive_mounts"    ->
                     create /\ \E i \in DOMAIN tool_input.mounts :
                                   RStripSlash(tool_input.mounts[i]) \in
                                       {<<>>, <<"/", "etc">>, <<"/", "var">>, <<"/", "root">>,
                                        <<"/", "home">>, <<"/", "boot">>, <<"/", "sys">>,
                                        <<"/", "proc">>}
                                   /\ tool_input.mounts[i] # <<>>
              [] c = "ssh_forwarding"      -> create /\ tool_input.forward_ssh
              [] c = "all_env_passthrough" -> create /\ tool_input.env_passthrough = "all"
              [] c = "destroy_all"         -> tool_input.operation = "destroy_all"}

\* The category a reason of the prompt speaks for
CategoryOf(reason) ==
    CASE reason[1] = "GPU passthrough requested"           -> "gpu_access"
      [] reason[1] = "Host network mode requested"         -> "host_network"
      [] reason[1] = "Sensitive host path mount"           -> "sensitive_mounts"
      [] reason[1] = "SSH key forwarding requested"        -> "ssh_forwarding"
      [] reason[1] = "All environment variables requested" -> "all_env_passthrough"
      [] reason[1] = "Destroying ALL managed containers"   -> "destroy_all"

ApprovalInputs ==
    [operation : GateOperations, gpu : BOOLEAN, network : {"bridge", "host"},
     mounts : MountLists, forward_ssh : BOOLEAN, env_passthrough : {"auto", "all"},
     container : {"c1"}]

\* C20: for a containers request that is not a create at the session limit,
\* handle_tool_pre returns ask_user exactly when some category listed in
\* require_approval_for has its trigger in the request, the prompt then holds a
\* reason for every such category and for no other, and otherwise it returns
\* continue; a request for another tool gets continue.
C20_ApprovalGate ==
    /\ \A tool_input \in ApprovalInputs :
          LET res == handle_tool_pre("containers", tool_input, session_containers,
                                     require_approval, max_containers)
              due == Triggered(tool_input) \cap require_approval
              at_limit == /\ tool_input.operation = "create"
                          /\ Len(session_containers) >= max_containers
          IN  /\ ~at_limit =>
                    /\ res.action = IF due # {} THEN "ask_user" ELSE "continue"
                    /\ {CategoryOf(res.reasons[i]) : i \in DOMAIN res.reasons} = due
    /\ \A tool_input \in GateRequests :
          handle_tool_pre("bash", tool_input, session_containers,
                          require_approval, max_containers).action = "continue"
    /\ (last_hook.hook = "pre" /\ last_hook.action = "ask_user") => last_hook.raised

\* C20 witness: a prompt was returned under a configuration that leaves one
\* category out of require_approval_for, and the request waits for the answer
C20_Witness ==
    /\ last_hook.hook = "pre"
    /\ last_hook.action = "ask_user"
    /\ "gpu_access" \notin require_approval
    /\ \E i \in Slots : req[i].pc = "asking"

(***************************************************************************)
(* Claims on the lifecycle and execution operations                        *)
(***************************************************************************)
\* The request being answered is a create that gives both compose fields
BothComposeFields ==
    /\ inp.operation = "create"
    /\ Truthy(inp.compose_content)
    /\ TruthyPath(inp.compose_file)

\* C11: a create that supplies both compose_content and compose_file returns an
\* error and starts nothing: no temp compose file, no compose up, no engine run,
\* no metadata (no call at all is made for it).
C11_ComposeFieldsExclusive ==
    (pc \notin {"idle", "preflight", "create"} /\ BothComposeFields) =>
        /\ pc = "done"
        /\ result.kind = "error"
        /\ log = <<>>
        /\ cr = NoFrame

\* C11 witness: the create with both fields got past the preflight and was refused
C11_Witness ==
    /\ pc = "done"
    /\ BothComposeFields
    /\ result = [kind |-> "error", error |-> "Provide compose_content OR compose_file, not both"]
    /\ preflight_passed

\* C12: destroy_all without confirm = true returns an error and does no work: no
\* engine call, no listing, no container and no record removed.
C12_DestroyAllNeedsConfirm ==
    [][(pc = "destroy_all" /\ ~inp.confirm) =>
          /\ pc' = "done"
          /\ result'.kind = "error"
          /\ log' = <<>>
          /\ store' = store
          /\ containers' = containers
          /\ runtime' = runtime]_vars

\* C12 witness: an unconfirmed destroy_all was refused while a container and its
\* record were there to destroy
C12_Witness ==
    /\ pc = "done"
    /\ inp.operation = "destroy_all"
    /\ ~inp.confirm
    /\ result = Error("Set confirm=true to destroy all managed containers")
    /\ "c1" \in containers
    /\ "c1" \in DOMAIN store

\* The request just answered is a destroy that named a container
Destroyed ==
    /\ pc = "done"
    /\ inp.operation = "destroy"
    /\ Truthy(inp.container)

Polled ==
    /\ pc = "done"
    /\ inp.operation = "exec_poll"
    /\ Truthy(inp.container)
    /\ Truthy(inp.job_id)

\* C14: exec_poll reports running = false whenever the job's .exit file exists
\* (holds a number the poll could read), whether or not the PID in .pid is the
\* PID of a live process, and it then reports that number as the exit code.
C14_ExitFileDecides ==
    (/\ Polled
     /\ inp.container \in containers
     /\ inp.job_id \in DOMAIN jobs
     /\ jobs[inp.job_id].exit # None) =>
        /\ ~result.running
        /\ result.exit_code = jobs[inp.job_id].exit

\* C14 witness: the job has written .exit and its PID is alive again (reused),
\* and the poll answered not running
C14_Witness ==
    /\ Polled
    /\ inp.container \in containers
    /\ jobs = [j \in {inp.job_id} |-> [exit |-> "1", pid_alive |-> TRUE]]
    /\ ~result.running

\* The request just answered is a wait_healthy that named a container and a probe
Waited ==
    /\ pc = "done"
    /\ inp.operation = "wait_healthy"
    /\ Truthy(inp.container)
    /\ Truthy(inp.health_command)

\* C15: wait_healthy ends after at most `retries` probes. If no probe exits 0 the
\* answer is healthy = false with attempts = retries, all of them made; if probe k
\* is the first to exit 0 the answer is healthy = true with attempts = k, and
\* probe k is the last one made.
C15_WaitHealthyBounded ==
    Waited =>
        LET retries == Get(inp, "retries", DefaultRetries)
            passed == {k \in DOMAIN probes : probes[k] = 0}
        IN  /\ Len(probes) <= retries
            /\ Len(probes) = result.attempts
            /\ passed = {} => (~result.healthy /\ result.attempts = retries)
            /\ \A k \in passed :
                  /\ result.healthy
                  /\ result.attempts = k
                  /\ k = Len(probes)
                  /\ \A j \in 1..(k - 1) : probes[j] # 0

\* C15 witness: with retries = MaxRetries the last allowed probe was the first
\* to succeed
C15_Witness ==
    /\ Waited
    /\ inp.retries = Some(MaxRetries)
    /\ result.healthy
    /\ result.attempts = MaxRetries
    /\ Len(probes) = MaxRetries

\* The request being answered is a restore (_op_restore hands it to _op_create
\* with the operation rewritten, the snapshot field stays)
Restoring ==
    /\ inp.operation = "create"
    /\ inp.snapshot # None

\* C16: once snapshot(C, S) has committed S, every restore with snapshot = S that
\* succeeds, whatever its other create fields (such as purpose), has started a
\* container whose image is amplifier-snapshot:S.
C16_RestoreRunsSnapshot ==
    (pc = "done" /\ Restoring /\ result.kind = "success" /\ inp.snapshot \in snapshots) =>
        /\ cr.image = SnapshotTag(inp.snapshot)
        /\ \A i \in DOMAIN log :
              log[i].k = "run" =>
                  SubSeq(log[i].w, Len(log[i].w) - 1, Len(log[i].w)) = SnapshotTag(inp.snapshot)

\* The container names of the requests
RecordNames == {"c1", "c2", GeneratedName}

\* A step writes the record of a name that had none
Writes(n) == n \notin DOMAIN store /\ n \in DOMAIN store'

\* A step changes the record of a name
Changes(n) == n \in DOMAIN store /\ n \in DOMAIN store' /\ store'[n] # store[n]

\* A step removes the record of a name
Removes(n) == n \in DOMAIN store /\ n \notin DOMAIN store'

\* The step is the store.save of the creation pipeline for the name
PipelineSaves(n) == pc = "save" /\ cr.name = n

\* The step is a destroy of the name, asked for by name or by destroy_all
DestroysIt(n) ==
    \/ pc = "destroy" /\ inp.container = n
    \/ pc = "destroy_all" /\ inp.confirm

\* The step is the except clause of a creation pipeline for the name
RollsBack(n) == pc \in Range(Pipeline) /\ cr.name = n /\ RolledBack'

Executed ==
    /\ pc = "done"
    /\ inp.operation \in {"exec", "exec_background"}
    /\ Truthy(inp.container)
    /\ Truthy(inp.command)

\* The stored exec_user of a container, none (<<>>) without a record
StoredUser(container) ==
    IF store_load(store, container) = Absent THEN <<>>
    ELSE store_load(store, container)[1].exec_user

\* C19: two-phase user model. The engine run of a create never carries --user;
\* exec and exec_background pass --user <exec_user> exactly when as_root is not
\* true and the stored record of the container has a non-null exec_user.
C19_TwoPhaseUser ==
    /\ \A i \in Issued("run") : "--user" \notin Range(log[i].w)
    /\ Executed =>
          LET exec_user == StoredUser(inp.container)
              due == ~Get(inp, "as_root", FALSE) /\ exec_user # <<>>
              args == log[1].w
          IN  /\ Len(log) = 1
              /\ log[1].k = "exec"
              /\ IF due
                 THEN SubSeq(args, 1, Len(exec_user) + 2)
                          = <<"--user">> \o exec_user \o <<inp.container>>
                 ELSE args[1] = inp.container /\ "--user" \notin Range(args)

\* C19 witness: an exec in a container whose record holds the host uid:gid was
\* given --user, after a run without it
C19_Witness ==
    /\ Executed
    /\ ~Get(inp, "as_root", FALSE)
    /\ StoredUser(inp.container) = HostUidGid
    /\ log[1].w[1] = "--user"
    /\ inp.container \in containers

(***************************************************************************)
(* Claims on the helpers                                                   *)
(***************************************************************************)
\* A path without the slashes at its end
Trimmed(path) ==
    LET last == {i \in 1..Len(path) : path[i] # "/"}
    IN  IF last = {} THEN <<>>
        ELSE SubSeq(path, 1, CHOOSE i \in last : \A j \in last : j <= i)

\* C21: a host path is sensitive if and only if it is non-empty and, with the
\* trailing slashes trimmed on both sides, it equals one of the configured
\* prefixes; /home, /etc/ and / are sensitive, /home/user/projects and the
\* empty path are not.
C21_SensitivePath ==
    /\ called.fn = "_is_sensitive_path" =>
          (called.result <=>
              /\ called.path # <<>>
              /\ \E i \in DOMAIN sensitive_prefixes :
                    Trimmed(called.path) = Trimmed(sensitive_prefixes[i]))
    /\ _is_sensitive_path(<<"/", "home">>)
    /\ _is_sensitive_path(<<"/", "etc", "/">>)
    /\ _is_sensitive_path(<<"/">>)
    /\ ~_is_sensitive_path(<<"/", "home", "/", "user", "/", "projects">>)
    /\ ~_is_sensitive_path(<<>>)

\* C21 witness: /etc/ was asked about and found sensitive
C21_Witness ==
    /\ called.fn = "_is_sensitive_path"
    /\ called.path = <<"/", "etc", "/">>
    /\ called.result

\* The last helper call was handle_tool_post for a containers request
Posted == called.fn = "handle_tool_post" /\ called.tool_name = "containers"

\* C22: handle_tool_post appends a name to the session list if and only if the
\* operation is create and the tool output reports success true together with
\* a container name, and the name appended is the one the output reports; a
\* create whose output does not report success leaves the list unchanged.
C22_TracksCreates ==
    Posted =>
        LET reported == /\ called.out.isdict
                        /\ called.out.success
                        /\ called.out.container # None
            appended == /\ Len(session_containers) = Len(called.before) + 1
                        /\ SubSeq(session_containers, 1, Len(called.before)) = called.before
        IN  /\ appended <=> (called.operation = "create" /\ reported)
            /\ appended => session_containers = Append(called.before, called.out.container)
            /\ (called.operation = "create" /\ ~reported) =>
                   session_containers = called.before

\* Reached: a successful create of c2 is tracked after c1
C22_Witness ==
    /\ Posted
    /\ called.operation = "create"
    /\ called.out.success
    /\ called.out.container = "c2"
    /\ called.before = <<"c1">>
    /\ session_containers = <<"c1", "c2">>

\* C23: after handle_tool_post has processed a destroy of container X (the
\* output being a dict, as the tool's always is), X no longer appears in the
\* session list and every other tracked name is still there; after a
\* destroy_all the list is empty.
C23_TracksDestroys ==
    (Posted /\ called.out.isdict) =>
        /\ called.operation = "destroy" =>
              /\ called.container \notin Range(session_containers)
              /\ Range(called.before) \ {called.container} \subseteq
                     Range(session_containers)
        /\ called.operation = "destroy_all" => session_containers = <<>>

TryRepo ==
    /\ inp.operation = "create"
    /\ inp.purpose = "try-repo"
    /\ SetupRan # <<>>

Clone == <<"git clone ", inp.repo_url, " /workspace/repo">>

\* The purpose a successful try-repo create reports is the detected one
ReportsDetected ==
    (TryRepo /\ result.kind = "success") =>
        /\ result.purpose = cr.purpose
        /\ \E detected \in DetectResults : result.purpose = detected[1]

HasEnvFlag(args, name, value) ==
    \E j \in DOMAIN args :
        /\ j + Len(name) + 2 <= Len(args)
        /\ SubSeq(args, j, j + Len(name) + 2) = <<"-e">> \o name \o <<"=", value>>

\* C26: when a create requests forward_gh and `gh auth token` on the host
\* returns a token T, the arguments of the engine run of that create include
\* the environment variables GH_TOKEN=T and GITHUB_TOKEN=T.
C26_GhTokenInRun ==
    \A i \in Issued("run") :
        (inp.operation = "create" /\ Get(cr.inp, "forward_gh", TRUE)) =>
            /\ HasEnvFlag(log[i].w, <<"GH", "_TOKEN">>, GhAuthToken)
            /\ HasEnvFlag(log[i].w, <<"GITHUB", "_TOKEN">>, GhAuthToken)

\* C27: no command line that provision_gh_auth issues to log gh in inside the
\* container contains the raw token: the `gh auth login --with-token` command
\* never has the token value in its command string.
C27_NoTokenOnCommandLine ==
    called.fn = "provision_gh_auth" =>
        \A i \in DOMAIN called.result.cmds :
            LET line == called.result.cmds[i].w
            IN  "gh auth login --with-token" \in Range(line) =>
                    called.gh_env_vars["GH_TOKEN"] \notin Range(line)

\* C28: for every host git configuration, provision_git writes no entry of the
\* sections credential, include, includeIf, http or safe into the container's
\* ~/.gitconfig.
C28_GitSafeSubset ==
    called.fn = "provision_git" =>
        \A i \in DOMAIN called.written :
            called.written[i][1] \notin {"credential", "include", "includeIf", "http", "safe"}

\* The steps of the report that ended failed or partial
Unsuccessful == {i \in DOMAIN report : report[i].status \in {"failed", "partial"}}

\* C29: no amplifier-cache:<purpose> commit is issued by a create of which any
\* provisioning step (git, gh, ssh, dotfiles, repos, config_files, amplifier
\* settings or setup_commands) ended failed or partial.
C29_CommitAfterAllSucceeded ==
    Issued("commit") # {} =>
        \A i \in Unsuccessful :
            report[i].name \notin {"forward_git", "forward_gh", "forward_ssh", "dotfiles",
                                   "dotfiles_inline", "repos", "config_files",
                                   "amplifier_settings", "setup_commands"}

\* C29, amended: no amplifier-cache:<purpose> commit is issued by a create whose
\* setup_commands step ended failed or partial; a failed or partial step of
\* another kind does not hold the commit back.
C29_CommitAfterSetupSucceeded ==
    Issued("commit") # {} =>
        \A i \in Unsuccessful : report[i].name # "setup_commands"

\* Reached: a create with a purpose and no cache image ends without a commit
\* because one of its setup commands failed
C29_Witness ==
    /\ result.kind = "success"
    /\ cr.purpose # None
    /\ ~cr.cache_used
    /\ ~cr.inp.cache_bust
    /\ \E i \in Unsuccessful : report[i].name = "setup_commands"
    /\ Issued("commit") = {}

\* C30: whenever the `.ssh` chmod 700 or the private-key chmod 600 of
\* fix_ssh_permissions does not succeed, the returned step has status failed,
\* never success.
C30_SshPermissionFailures ==
    called.fn = "fix_ssh_permissions" =>
        ((\E i \in called.failing : SshCommands[i][1] \in {"chmod 700", "chmod 600 id_*"})
            => called.result.step.status = "failed")

(***************************************************************************)
(* Claims on setup commands, the cache and the outputs of create           *)
(***************************************************************************)
\* The setup_commands entries of the report
SetupSteps == {i \in DOMAIN report : report[i].name = "setup_commands"}

\* C31: every setup command of a create is executed, in list order, even after
\* an earlier one exited non-zero, and the setup_commands step is success
\* exactly when all commands exited zero and partial otherwise.
C31_SetupCommandsAllRun ==
    \A i \in SetupSteps :
        /\ SetupRan = final_setup_commands(cr.inp, cr.purpose)
        /\ DOMAIN cr.results = DOMAIN SetupRan
        /\ report[i].status = IF \A k \in DOMAIN cr.results : cr.results[k]
                              THEN "success" ELSE "partial"

\* Reached: the first of two user commands exits non-zero, the second is still
\* run, and the step is partial
C31_Witness ==
    /\ \E i \in SetupSteps : report[i].status = "partial"
    /\ Len(SetupRan) = 2
    /\ ~cr.results[1]
    /\ cr.results[2]

\* The engine run of the current create has been issued and nothing committed yet
Ran == cr.name # None /\ Issued("run") # {} /\ Issued("commit") = {}

\* The image the run was given: the last two tokens of its arguments
RunImage == LET args == log[CHOOSE i \in Issued("run") : TRUE].w
            IN  SubSeq(args, Len(args) - 1, Len(args))

\* amplifier-cache:<purpose> exists locally with the current profile digest as label
CacheCurrent ==
    /\ CacheTag(cr.purpose) \in DOMAIN images
    /\ images[CacheTag(cr.purpose)] = get_profile_hash(cr.purpose)

\* C32: for a known purpose and cache_bust unset, create substitutes
\* amplifier-cache:<purpose> for the image if and only if that image exists
\* locally and its label equals the current profile digest; an image with a
\* stale label is never used, and with cache_bust the cached image is never used.
C32_CacheLookup ==
    (Ran /\ cr.purpose \in KnownPurposes) =>
        /\ ~cr.inp.cache_bust =>
              /\ cr.cache_used <=> CacheCurrent
              /\ (RunImage = CacheTag(cr.purpose)) <=> CacheCurrent
        /\ cr.inp.cache_bust => (~cr.cache_used /\ RunImage # CacheTag(cr.purpose))

\* Reached: an image exists under the tag with the label of an older profile, and
\* the run is given the profile's image
C32_Witness ==
    /\ Ran
    /\ cr.purpose = "python"
    /\ ~cr.inp.cache_bust
    /\ CacheTag("python") \in DOMAIN images
    /\ ~CacheCurrent
    /\ RunImage = <<"python", "3.12-slim">>

\* The command cmd holds the amplifier install pinned to version
Pinned(cmd, version) ==
    \E j \in DOMAIN cmd :
        /\ j + 2 <= Len(cmd)
        /\ SubSeq(cmd, j, j + 2) = <<UvTool, "==", version>>

\* The command cmd holds the amplifier install with no version after it
Unversioned(cmd) ==
    \E j \in DOMAIN cmd : cmd[j] = UvTool /\ (j = Len(cmd) \/ cmd[j + 1] # "==")

\* C33: every successful create with purpose amplifier and amplifier_version V
\* executes the install command pinned to amplifier==V in the container and
\* never the unversioned install, whether or not a cached image is used.
C33_VersionPinned ==
    (Succeeded /\ inp.purpose = "amplifier" /\ inp.amplifier_version # None) =>
        /\ \E i \in DOMAIN SetupRan : Pinned(SetupRan[i], inp.amplifier_version)
        /\ \A i \in DOMAIN SetupRan : ~Unversioned(SetupRan[i])

InjectedValues == {CreateEnvVars[k] : k \in DOMAIN CreateEnvVars}

\* C34: for every create, successful or failed, no value of an injected
\* environment variable appears in the persisted metadata record (env_keys holds
\* the names only) or in a field of the returned record.
C34_EnvValuesStayOut ==
    /\ \A n \in DOMAIN store :
          "env_keys" \in DOMAIN store[n] =>
              \A k \in store[n].env_keys : Range(k) \cap InjectedValues = {}
    /\ (pc = "done" /\ result.kind = "error" /\ "command_hint" \in DOMAIN result) =>
          Range(result.command_hint) \cap InjectedValues = {}
    /\ (pc = "done" /\ Succeeded) =>
          /\ Range(result.image) \cap InjectedValues = {}
          /\ result.env_vars_injected = Cardinality(DOMAIN CreateEnvVars)

\* The request brought its compose project up: the network of the project was asked for
ComposeUp == Issued("network inspect") # {}

\* C35: a create that returns an error after it brought a compose project up has
\* torn the project down, and deleted the temp compose file it wrote, before the
\* error is returned (missing repo_url, failed run, exception after the run).
C35_ErrorLeavesNoCompose ==
    (pc = "done" /\ result.kind = "error" /\ ComposeUp) =>
        /\ Issued("compose down") # {}
        /\ Issued("tempfile.write") # {} => Issued("tempfile.unlink") # {}

\* The containers the request being answered has started itself: its engine run
\* has been issued (the engine refuses a name that is taken)
StartedByRequest ==
    IF Issued("run") # {} /\ cr.name # None THEN {cr.name} ELSE {}

\* C36: a create that returns an error never removes a container that existed
\* before the request began: the step that returns the error leaves every
\* container the request did not start itself, one of the requested name included,
\* and its metadata record.
C36_ErrorKeepsExisting ==
    [][(inp.operation = "create" /\ pc # "done" /\ pc' = "done" /\ result'.kind = "error") =>
          /\ containers \ StartedByRequest \subseteq containers'
          /\ \A n \in containers \ StartedByRequest :
                store_load(store', n) = store_load(store, n)]_vars

\* The same request issued as a create
AsCreate(tool_input) == [tool_input EXCEPT !.operation = "create"]

\* C37: the safety gate treats a restore as it treats the same request issued as
\* a create: the pre hook gives the same answer (ask_user for a gated option, deny
\* at the container limit), and the post hook of a successful restore adds the
\* new container to the session list.
C37_GateCoversRestore ==
    \A tool_input \in GateInputs :
        tool_input.operation = "restore" =>
            /\ handle_tool_pre("containers", tool_input, session_containers,
                               require_approval, max_containers).action
               = handle_tool_pre("containers", AsCreate(tool_input), session_containers,
                                 require_approval, max_containers).action
            /\ \A out \in ToolOutputs("create") :
                  handle_tool_post("containers", "restore", tool_input.container, out,
                                   session_containers)
                  = handle_tool_post("containers", "create", tool_input.container, out,
                                     session_containers)

\* C38: on one tool instance no engine run that starts a container is issued
\* before a preflight has reported ready, whether the container is started by a
\* create or by a restore.
C38_NoRunBeforePreflight ==
    (Issued("run") # {} /\ runtime # None) => preflight_passed

\* What a commit of the container captures: every command the request ran in the
\* container before the commit
Captured(i) == {j \in 1..(i - 1) : log[j].k = "exec" /\ log[j].t = log[i].t}

\* C39: the image committed as amplifier-cache:<purpose> holds only the profile's
\* base image and the effects of the profile's own setup commands: the container
\* was run from the profile's image, and every command run in it before the
\* commit is a setup command of the profile (no user setup command, repo clone,
\* config file or forwarded credential).
C39_CachePurity ==
    \A i \in Issued("commit") :
        cr.purpose \in KnownPurposes =>
            /\ RunImage = PURPOSE_PROFILES[cr.purpose].image
            /\ \A j \in Captured(i) :
                  /\ log[j].s = "setup_commands"
                  /\ log[j].w \in ProfileCommands

(***************************************************************************)
(* Background jobs inside one running container                            *)
(***************************************************************************)
MaxJobs == 2         \* background jobs started in the container

\* The job ids uuid4 can give
JobIds == {"j1", "j2", "j3"}

\* The jobs an earlier exec_poll has reported as not running
Settled == IF "settled" \in DOMAIN called THEN called.settled ELSE {}

\* _op_exec_background: the subshell of the job runs under the PID written to
\* .pid; .exit is not there yet
StartJob ==
    /\ pc = "off"
    /\ Cardinality(DOMAIN jobs) < MaxJobs
    /\ \E job_id \in JobIds \ DOMAIN jobs :
         /\ jobs' = (job_id :> [exit |-> None, proc |-> "job"]) @@ jobs
         /\ called' = [fn |-> "exec_background", job_id |-> job_id, settled |-> Settled]
    /\ UNCHANGED <<pc, inp, cr, preflight_passed, runtime, store, containers, images, log,
                   report, result, served, snapshots, probes, saved, loaded>>
    /\ UNCHANGED <<gateVars, envVars>>

\* The command of the job has ended: the subshell writes its exit code to .exit
JobWritesExit ==
    /\ pc = "off"
    /\ \E job_id \in DOMAIN jobs, code \in {"0", "1"} :
         /\ jobs[job_id].proc = "job"
         /\ jobs[job_id].exit = None
         /\ jobs' = [jobs EXCEPT ![job_id].exit = code]
    /\ UNCHANGED <<pc, inp, cr, preflight_passed, runtime, store, containers, images, log,
                   report, result, served, snapshots, probes>>
    /\ UNCHANGED <<gateVars, envVars, callVars>>

\* The subshell ends after it wrote .exit, and its PID is free
ProcessEnds ==
    /\ pc = "off"
    /\ \E job_id \in DOMAIN jobs :
         /\ jobs[job_id].proc = "job"
         /\ jobs[job_id].exit # None
         /\ jobs' = [jobs EXCEPT ![job_id].proc = "gone"]
    /\ UNCHANGED <<pc, inp, cr, preflight_passed, runtime, store, containers, images, log,
                   report, result, served, snapshots, probes>>
    /\ UNCHANGED <<gateVars, envVars, callVars>>

\* The container gives the free PID of a job to another process, and that process
\* ends in its turn
PidReused ==
    /\ pc = "off"
    /\ \E job_id \in DOMAIN jobs :
         /\ jobs[job_id].proc \in {"gone", "other"}
         /\ jobs' = [jobs EXCEPT ![job_id].proc =
                         IF jobs[job_id].proc = "gone" THEN "other" ELSE "gone"]
    /\ UNCHANGED <<pc, inp, cr, preflight_passed, runtime, store, containers, images, log,
                   report, result, served, snapshots, probes>>
    /\ UNCHANGED <<gateVars, envVars, callVars>>

\* _op_exec_cancel: `kill $(cat .pid)` ends the process that has the PID now; a
\* subshell killed before its command ended never writes .exit
CancelJob ==
    /\ pc = "off"
    /\ \E job_id \in DOMAIN jobs :
         /\ jobs' = [jobs EXCEPT ![job_id].proc = "gone"]
         /\ called' = [fn |-> "exec_cancel", job_id |-> job_id, cancelled |-> TRUE,
                       settled |-> Settled]
    /\ UNCHANGED <<pc, inp, cr, preflight_passed, runtime, store, containers, images, log,
                   report, result, served, snapshots, probes, saved, loaded>>
    /\ UNCHANGED <<gateVars, envVars>>

\* _op_exec_poll on the files and the process table of the container: cat .exit,
\* and kill -0 of the PID in .pid when .exit holds no number
PollJob ==
    /\ pc = "off"
    /\ \E job_id \in DOMAIN jobs :
         LET ec_str == IF jobs[job_id].exit # None THEN jobs[job_id].exit ELSE ""
             pid_stdout == IF jobs[job_id].proc # "gone" THEN "running" ELSE "done"
             running == poll_running(ec_str, pid_stdout)
         IN  called' = [fn |-> "exec_poll", job_id |-> job_id, running |-> running,
                        exit_code |-> IF isdigit(ec_str) THEN ec_str ELSE None,
                        before |-> Settled,
                        settled |-> IF running THEN Settled ELSE Settled \cup {job_id}]
    /\ UNCHANGED <<saved, loaded>>
    /\ UNCHANGED <<gateVars, envVars, toolVars, opsVars>>

JobsNext ==
    \/ StartJob
    \/ JobWritesExit
    \/ ProcessEnds
    \/ PidReused
    \/ CancelJob
    \/ PollJob

SpecJobs == InitStore /\ [][JobsNext]_vars

\* C40: once an exec_poll of a job has returned running = false, every later
\* exec_poll of that job returns running = false, also when the job was ended by
\* exec_cancel and when its PID is reused by another process.
C40_CompletionStable ==
    (called.fn = "exec_poll" /\ called.job_id \in called.before) => ~called.running

====
